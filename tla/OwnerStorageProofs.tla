------------------------- MODULE OwnerStorageProofs -------------------------
(***************************************************************************)
(* For any records, users and sessions and any length of the invalidation  *)
(* queue, whatever connections break and whatever messages are lost: a     *)
(* connected client has no stale copy of its user's records without the    *)
(* invalidation being on its way.                                          *)
(***************************************************************************)
EXTENDS OwnerStorage, SequenceTheorems, TLAPS

SeqsInv ==
    /\ invq \in Seq(Invalidation)
    /\ inflight \in [Sessions -> Seq(Invalidation)]

\* Nobody knows of a transaction that has not been.
TidsInv ==
    /\ \A o \in Oids : serial[o] <= tid
    /\ \A z \in Sessions : seen[z] <= tid
    /\ \A k \in DOMAIN invq : invq[k].tid <= tid

\* A queue has the newest transaction first and everything that was stored since
\* its oldest one.
Newest(q) == \A j, k \in DOMAIN q : j < k => q[k].tid < q[j].tid

Complete(q, s) ==
    q # <<>> => \A o \in Oids : s[o] >= q[Len(q)].tid =>
        \E k \in DOMAIN q : q[k].oid = o /\ q[k].tid = s[o]

QueueInv == Newest(invq) /\ Complete(invq, serial)

\* Invalidations arrive in the order of their transactions, which the client
\* does not know of yet.
InflightInv ==
    \A z \in Sessions :
        /\ \A k \in DOMAIN inflight[z] :
            /\ seen[z] < inflight[z][k].tid
            /\ inflight[z][k].tid <= serial[inflight[z][k].oid]
        /\ \A j, k \in DOMAIN inflight[z] :
            j < k => inflight[z][j].tid < inflight[z][k].tid

\* A copy that misses what a session of the same user has stored
Stale(z, o) == cache[z][o] \notin {-1, serial[o]} /\ owner[o] = UserOf[z]

UpInv ==
    \A z \in up, o \in Oids :
        Stale(z, o) => \E k \in DOMAIN inflight[z] : inflight[z][k].oid = o

\* What a client without a connection has missed is newer than what it has seen.
DownInv ==
    \A z \in Sessions \ up :
        /\ inflight[z] = <<>>
        /\ \A o \in Oids : Stale(z, o) => serial[o] > seen[z]

CacheInv == TypeOK /\ SeqsInv /\ TidsInv /\ QueueInv /\ InflightInv /\ UpInv /\ DownInv

-----------------------------------------------------------------------------
(* The queue and the messages as sequences. *)

LEMMA Invalidations ==
    ASSUME NEW i \in Invalidation
    PROVE  i.tid \in 1 .. MaxTid /\ i.oid \in Oids
BY DEF Invalidation

LEMMA Domains ==
    ASSUME NEW q \in Seq(Invalidation)
    PROVE  /\ Len(q) \in Nat /\ DOMAIN q = 1 .. Len(q)
           /\ \A k \in 1 .. Len(q) : q[k] \in Invalidation
BY LenProperties, ElementOfSeq

\* The queue of StorageServer.invalidate: the new entry, then the old ones but
\* for the oldest of a full queue.
LEMMA QueuedIs ==
    ASSUME NEW q \in Seq(Invalidation), Len(q) <= invq_bound, NEW i \in Invalidation
    PROVE  LET r == Queued(q, i) IN
           /\ r \in Seq(Invalidation) /\ Len(r) \in 1 .. invq_bound
           /\ r[1] = i /\ Len(r) \in {Len(q), Len(q) + 1}
           /\ \A k \in 2 .. Len(r) : r[k] = q[k - 1]
<1> DEFINE t == IF Len(q) >= invq_bound THEN SubSeq(q, 1, Len(q) - 1) ELSE q
           r == <<i>> \o t
<1>1. Len(q) \in Nat /\ \A k \in 1 .. Len(q) : q[k] \in Invalidation
  BY Domains
<1>2. /\ t \in Seq(Invalidation) /\ \A k \in 1 .. Len(t) : t[k] = q[k]
      /\ Len(t) \in 0 .. invq_bound - 1 /\ Len(t) \in {Len(q) - 1, Len(q)}
  <2>1. CASE Len(q) >= invq_bound
    <3>1. Len(q) - 1 \in Nat /\ Len(q) = invq_bound
      BY <1>1, <2>1, BoundsAssumption
    <3>2. \A k \in 1 .. Len(q) - 1 : q[k] \in Invalidation
      BY <1>1, <3>1
    <3>3. /\ SubSeq(q, 1, Len(q) - 1) \in Seq(Invalidation)
          /\ Len(SubSeq(q, 1, Len(q) - 1)) = Len(q) - 1
          /\ \A k \in 1 .. Len(q) - 1 : SubSeq(q, 1, Len(q) - 1)[k] = q[k]
      BY <3>1, <3>2, SubSeqProperties
    <3> QED
      BY <2>1, <3>1, <3>3
  <2>2. CASE ~(Len(q) >= invq_bound)
    BY <1>1, <2>2, BoundsAssumption
  <2> QED
    BY <2>1, <2>2
<1> HIDE DEF t
<1>3. <<i>> \in Seq(Invalidation) /\ Len(<<i>>) = 1 /\ <<i>>[1] = i
  OBVIOUS
<1>4. /\ r \in Seq(Invalidation) /\ Len(r) = 1 + Len(t) /\ r[1] = i
      /\ \A k \in 2 .. Len(r) : r[k] = t[k - 1]
  BY <1>2, <1>3, ConcatProperties
<1> HIDE DEF r
<1>5. \A k \in 2 .. Len(r) : r[k] = q[k - 1]
  BY <1>2, <1>4
<1>6. Len(r) \in 1 .. invq_bound /\ Len(r) \in {Len(q), Len(q) + 1}
  BY <1>1, <1>2, <1>4, BoundsAssumption
<1> QED
  BY <1>4, <1>5, <1>6 DEF r, t, Queued

\* The m entries of a queue, with transactions f and records g, up to the
\* transaction n, where s has the last transaction of each record
Entries(m, f, g, s, n) ==
    /\ m \in Nat /\ f \in [1 .. m -> Nat] /\ g \in [1 .. m -> Oids]
    /\ n \in Nat /\ s \in [Oids -> Nat] /\ \A p \in Oids : s[p] <= n
    /\ \A k \in 1 .. m : f[k] <= n
    /\ \A j, k \in 1 .. m : j < k => f[k] < f[j]
    /\ m # 0 => \A p \in Oids : s[p] >= f[m] => \E k \in 1 .. m : g[k] = p /\ f[k] = s[p]

\* One more in front, of transaction n + 1 and record o, and maybe the last gone
Pushed(m, f, g, s, n, o, l, v, w, t) ==
    /\ l \in Nat \ {0} /\ l \in {m, m + 1} /\ o \in Oids
    /\ v \in [1 .. l -> Nat] /\ w \in [1 .. l -> Oids]
    /\ v[1] = n + 1 /\ w[1] = o
    /\ \A k \in 2 .. l : v[k] = f[k - 1] /\ w[k] = g[k - 1]
    /\ t \in [Oids -> Nat] /\ t[o] = n + 1 /\ \A p \in Oids \ {o} : t[p] = s[p]

\* The last of falling numbers is the least.
LEMMA LastIsLeast ==
    ASSUME NEW m \in Nat, NEW f \in [1 .. m -> Nat],
           \A j, k \in 1 .. m : j < k => f[k] < f[j], NEW i \in 1 .. m
    PROVE  f[m] <= f[i] /\ m # 0
<1>1. m \in 1 .. m /\ m # 0 /\ (i < m \/ i = m)
  OBVIOUS
<1>2. f[m] \in Nat /\ f[i] \in Nat
  BY <1>1
<1>3. i < m => f[m] < f[i]
  BY <1>1
<1> QED
  BY <1>1, <1>2, <1>3

LEMMA PushKept ==
    ASSUME NEW m, NEW f, NEW g, NEW s, NEW n, NEW o, NEW l, NEW v, NEW w, NEW t,
           Entries(m, f, g, s, n), Pushed(m, f, g, s, n, o, l, v, w, t)
    PROVE  Entries(l, v, w, t, n + 1)
<1> USE DEF Entries, Pushed
<1>1. ASSUME NEW k \in 2 .. l PROVE k - 1 \in 1 .. m /\ v[k] <= n
  <2>1. k - 1 \in 1 .. m
    OBVIOUS
  <2>2. v[k] = f[k - 1] /\ f[k - 1] <= n
    BY <2>1
  <2> QED
    BY <2>1, <2>2
<1>2. \A k \in 1 .. l : k = 1 \/ k \in 2 .. l
  OBVIOUS
<1>3. ASSUME NEW k \in 1 .. l PROVE v[k] <= n + 1
  <2>1. CASE k = 1
    BY <2>1
  <2>2. CASE k \in 2 .. l
    <3>1. v[k] <= n /\ v[k] \in Nat
      BY <1>1, <2>2
    <3> QED
      BY <3>1
  <2> QED
    BY <1>2, <2>1, <2>2
<1>4. ASSUME NEW j \in 1 .. l, NEW k \in 1 .. l, j < k PROVE v[k] < v[j]
  <2>1. k \in 2 .. l /\ k - 1 \in 1 .. m /\ v[k] = f[k - 1]
    BY <1>1, <1>4
  <2>2. CASE j = 1
    BY <1>1, <2>1, <2>2
  <2>3. CASE j \in 2 .. l
    <3>1. j - 1 \in 1 .. m /\ j - 1 < k - 1 /\ v[j] = f[j - 1]
      BY <1>1, <1>4, <2>3
    <3> QED
      BY <2>1, <3>1
  <2> QED
    BY <1>2, <2>2, <2>3
<1>5. ASSUME NEW p \in Oids, t[p] >= v[l]
      PROVE  \E k \in 1 .. l : w[k] = p /\ v[k] = t[p]
  <2>1. CASE p = o
    BY <2>1
  <2>2. CASE p # o
    <3>1. t[p] = s[p] /\ s[p] <= n
      BY <2>2
    <3>2. l \in 2 .. l /\ l - 1 \in 1 .. m /\ v[l] = f[l - 1]
      BY <1>1, <1>2, <1>5, <3>1
    <3>3. f[m] <= f[l - 1] /\ m # 0
      <4>1. /\ m \in Nat /\ f \in [1 .. m -> Nat]
            /\ \A j, k \in 1 .. m : j < k => f[k] < f[j]
        OBVIOUS
      <4> HIDE DEF Entries, Pushed
      <4> QED
        BY <3>2, <4>1, LastIsLeast
    <3>m. s[p] >= f[m]
      <4>1. f[l - 1] \in Nat /\ f[m] \in Nat /\ s[p] \in Nat
        BY <3>2, <3>3
      <4>2. s[p] >= f[l - 1]
        BY <1>5, <3>1, <3>2
      <4> HIDE DEF Entries, Pushed
      <4> QED
        BY <3>3, <4>1, <4>2
    <3>4. PICK k \in 1 .. m : g[k] = p /\ f[k] = s[p]
      BY <3>3, <3>m
    <3>5. k <= l - 1
      BY <1>5, <3>1, <3>2, <3>4
    <3>6. k + 1 \in 2 .. l /\ (k + 1) - 1 = k
      BY <3>5
    <3>7. v[k + 1] = f[k] /\ w[k + 1] = g[k] /\ k + 1 \in 1 .. l
      <4>1. \A h \in 2 .. l : v[h] = f[h - 1] /\ w[h] = g[h - 1]
        OBVIOUS
      <4>2. v[k + 1] = f[(k + 1) - 1] /\ w[k + 1] = g[(k + 1) - 1]
        BY <3>6, <4>1, Zenon
      <4>3. k + 1 \in 1 .. l
        BY <3>6
      <4> QED
        BY <3>6, <4>2, <4>3
    <3> QED
      BY <3>1, <3>4, <3>7
  <2> QED
    BY <2>1, <2>2
<1>6. ASSUME NEW p \in Oids PROVE t[p] <= n + 1
  <2>1. CASE p = o
    BY <2>1
  <2>2. CASE p # o
    <3>1. t[p] = s[p] /\ s[p] <= n
      BY <2>2
    <3> QED
      BY <3>1
  <2> QED
    BY <2>1, <2>2
<1> QED
  BY <1>3, <1>4, <1>5, <1>6

\* The queue stays in order and complete when a transaction is added to it.
LEMMA QueueKept ==
    ASSUME NEW q \in Seq(Invalidation), Len(q) <= invq_bound, NEW o \in Oids,
           NEW n \in Nat, n < MaxTid,
           NEW s \in [Oids -> Nat], \A p \in Oids : s[p] <= n,
           \A k \in DOMAIN q : q[k].tid <= n,
           Newest(q), Complete(q, s)
    PROVE  LET i == [tid |-> n + 1, oid |-> o]
               r == Queued(q, i)
           IN /\ i \in Invalidation
              /\ r \in Seq(Invalidation) /\ Len(r) <= invq_bound
              /\ \A k \in DOMAIN r : r[k].tid <= n + 1
              /\ Newest(r) /\ Complete(r, [s EXCEPT ![o] = n + 1])
<1> DEFINE i == [tid |-> n + 1, oid |-> o]
           r == Queued(q, i)
           t == [s EXCEPT ![o] = n + 1]
           m == Len(q)
           l == Len(r)
           f == [k \in 1 .. m |-> q[k].tid]
           g == [k \in 1 .. m |-> q[k].oid]
           v == [k \in 1 .. l |-> r[k].tid]
           w == [k \in 1 .. l |-> r[k].oid]
<1>1. i \in Invalidation /\ i.tid = n + 1 /\ i.oid = o
  BY BoundsAssumption DEF Invalidation
<1> HIDE DEF i
<1>2. /\ r \in Seq(Invalidation) /\ l \in 1 .. invq_bound
      /\ r[1] = i /\ l \in {m, m + 1}
      /\ \A k \in 2 .. l : r[k] = q[k - 1]
  BY <1>1, QueuedIs, Zenon
<1> HIDE DEF r
<1>3. /\ m \in Nat /\ DOMAIN q = 1 .. m
      /\ \A k \in 1 .. m : q[k].tid \in 1 .. MaxTid /\ q[k].oid \in Oids
  BY Domains, Invalidations
<1>4. /\ l \in Nat /\ DOMAIN r = 1 .. l
      /\ \A k \in 1 .. l : r[k].tid \in 1 .. MaxTid /\ r[k].oid \in Oids
  BY <1>2, Domains, Invalidations
<1>5. f \in [1 .. m -> Nat] /\ g \in [1 .. m -> Oids]
  BY <1>3, BoundsAssumption
<1>6. v \in [1 .. l -> Nat] /\ w \in [1 .. l -> Oids]
  BY <1>4, BoundsAssumption
<1>7. \A k \in 1 .. m : f[k] <= n
  BY <1>3
<1>8. \A j, k \in 1 .. m : j < k => f[k] < f[j]
  BY <1>3 DEF Newest
<1>9. m # 0 => \A p \in Oids : s[p] >= f[m] => \E k \in 1 .. m : g[k] = p /\ f[k] = s[p]
  BY <1>3, EmptySeq DEF Complete
<1>len. m \in Nat /\ l \in Nat /\ l \in {m, m + 1} /\ l \in 1 .. invq_bound
  BY <1>2, <1>3, <1>4, Zenon
<1>10. 1 \in 1 .. l /\ l \in Nat \ {0}
  <2> HIDE DEF l, m
  <2> QED
    BY <1>len
<1>11. v[1] = n + 1 /\ w[1] = o
  BY <1>1, <1>2, <1>10, Zenon
<1>12. ASSUME NEW k \in 2 .. l PROVE v[k] = f[k - 1] /\ w[k] = g[k - 1]
  <2>1. k \in 1 .. l /\ k - 1 \in 1 .. m
    <3> HIDE DEF l, m
    <3> QED
      BY <1>len
  <2>2. r[k] = q[k - 1]
    BY <1>2
  <2> QED
    BY <2>1, <2>2, Zenon
<1>13. t \in [Oids -> Nat] /\ t[o] = n + 1 /\ \A p \in Oids \ {o} : t[p] = s[p]
  OBVIOUS
<1> HIDE DEF f, g, v, w, t, m, l
<1>e. Entries(m, f, g, s, n)
  BY <1>len, <1>5, <1>7, <1>8, <1>9 DEF Entries
<1>p. Pushed(m, f, g, s, n, o, l, v, w, t)
  BY <1>len, <1>6, <1>10, <1>11, <1>12, <1>13 DEF Pushed
<1>14. /\ \A k \in 1 .. l : v[k] <= n + 1
       /\ \A j, k \in 1 .. l : j < k => v[k] < v[j]
       /\ \A p \in Oids : t[p] >= v[l] => \E k \in 1 .. l : w[k] = p /\ v[k] = t[p]
  <2>1. Entries(l, v, w, t, n + 1)
    BY <1>e, <1>p, PushKept
  <2> QED
    BY <1>10, <2>1 DEF Entries
<1>15. \A k \in 1 .. l : v[k] = r[k].tid /\ w[k] = r[k].oid
  BY DEF v, w
<1>16. l \in 1 .. l
  BY <1>10
<1>17. Newest(r) /\ \A k \in DOMAIN r : r[k].tid <= n + 1
  BY <1>4, <1>14, <1>15 DEF Newest
<1>18. Complete(r, t)
  <2>1. Len(r) = l
    BY DEF l
  <2>2. ASSUME NEW p \in Oids, t[p] >= r[Len(r)].tid
        PROVE  \E k \in DOMAIN r : r[k].oid = p /\ r[k].tid = t[p]
    <3>1. t[p] >= v[l]
      BY <1>15, <1>16, <2>1, <2>2
    <3>2. PICK k \in 1 .. l : w[k] = p /\ v[k] = t[p]
      BY <1>14, <3>1
    <3> QED
      BY <1>4, <1>15, <3>2
  <2> QED
    BY <2>2 DEF Complete
<1> QED
  BY <1>1, <1>2, <1>17, <1>18, BoundsAssumption DEF r, i, t, l

\* A message more for a client, of a transaction later than the others
LEMMA Sent ==
    ASSUME NEW q \in Seq(Invalidation), NEW i \in Invalidation
    PROVE  /\ Append(q, i) \in Seq(Invalidation)
           /\ Len(Append(q, i)) = Len(q) + 1 /\ Append(q, i)[Len(q) + 1] = i
           /\ \A k \in 1 .. Len(q) : Append(q, i)[k] = q[k]
           /\ DOMAIN Append(q, i) = DOMAIN q \cup {Len(q) + 1}
           /\ DOMAIN q = 1 .. Len(q) /\ Len(q) \in Nat
<1>1. /\ Append(q, i) \in Seq(Invalidation)
      /\ Len(Append(q, i)) = Len(q) + 1 /\ Append(q, i)[Len(q) + 1] = i
      /\ \A k \in 1 .. Len(q) : Append(q, i)[k] = q[k]
  BY AppendProperties
<1>2. Len(q) \in Nat /\ DOMAIN q = 1 .. Len(q)
  BY Domains
<1>3. DOMAIN Append(q, i) = 1 .. Len(q) + 1
  BY <1>1, Domains
<1> QED
  BY <1>1, <1>2, <1>3

\* A message less
LEMMA Arrived ==
    ASSUME NEW q \in Seq(Invalidation), q # <<>>
    PROVE  /\ Head(q) = q[1] /\ Tail(q) \in Seq(Invalidation)
           /\ DOMAIN q = 1 .. Len(q) /\ Len(q) \in Nat \ {0}
           /\ DOMAIN Tail(q) = 1 .. Len(q) - 1
           /\ \A k \in 1 .. Len(q) - 1 : Tail(q)[k] = q[k + 1]
BY Domains, HeadTailProperties, EmptySeq

-----------------------------------------------------------------------------
(* The invariant, one lemma per action. *)

LEMMA InitCache == Init => CacheInv
<1> SUFFICES ASSUME Init PROVE CacheInv
  OBVIOUS
<1>1. invq = <<>> /\ Len(invq) = 0 /\ DOMAIN invq = {}
  BY DEF Init
<1>2. \A z \in Sessions : inflight[z] = <<>> /\ DOMAIN inflight[z] = {}
  BY DEF Init
<1>3. TypeOK
  BY <1>1, <1>2, UsersAssumption, BoundsAssumption DEF Init, TypeOK
<1>4. SeqsInv
  BY <1>1, EmptySeq DEF Init, SeqsInv
<1>5. TidsInv /\ QueueInv
  BY <1>1 DEF Init, TidsInv, QueueInv, Newest, Complete
<1>6. InflightInv
  BY <1>2 DEF InflightInv
<1>7. UpInv /\ DownInv
  BY <1>2 DEF Init, UpInv, DownInv, Stale
<1> QED
  BY <1>3, <1>4, <1>5, <1>6, <1>7 DEF CacheInv
\* A record that is loaded is current.
LEMMA LoadKeeps ==
    ASSUME CacheInv, NEW z \in Sessions, NEW o \in Oids, Load(z, o)
    PROVE  CacheInv'
<1> USE DEF CacheInv
<1>1. cache' \in [Sessions -> [Oids -> -1 .. MaxTid]]
  BY DEF Load, TypeOK
<1>2. UNCHANGED <<owner, serial, tid, invq, up, seen, inflight>>
  BY DEF Load, server
<1>3. TypeOK'
  BY <1>1, <1>2 DEF TypeOK
<1>4. SeqsInv' /\ TidsInv' /\ QueueInv' /\ InflightInv'
  BY <1>2 DEF SeqsInv, TidsInv, QueueInv, Newest, Complete, InflightInv
<1>5. \A y \in Sessions, p \in Oids : Stale(y, p)' => Stale(y, p)
  BY <1>2 DEF Load, Stale, TypeOK
<1>6. UpInv' /\ DownInv'
  BY <1>2, <1>5, Zenon DEF UpInv, DownInv, TypeOK
<1> QED
  BY <1>3, <1>4, <1>6

\* What was on its way to the client is newer than what the client has seen.
LEMMA LoseKeeps ==
    ASSUME CacheInv, NEW z \in Sessions, Lose(z)
    PROVE  CacheInv'
<1> USE DEF CacheInv
<1>1. UNCHANGED <<owner, serial, tid, invq, cache, seen>> /\ up' = up \ {z}
  BY DEF Lose, server
<1>2. inflight'[z] = <<>> /\ \A y \in Sessions \ {z} : inflight'[y] = inflight[y]
  BY DEF Lose, SeqsInv
<1>3. inflight' \in [Sessions -> Seq(Invalidation)]
  BY EmptySeq DEF Lose, SeqsInv
<1>4. \A y \in Sessions : \A k \in DOMAIN inflight'[y] : inflight'[y][k] \in Invalidation
  BY <1>3, Domains
<1>5. TypeOK'
  BY <1>1, <1>4 DEF TypeOK
<1>6. SeqsInv' /\ TidsInv' /\ QueueInv'
  BY <1>1, <1>3 DEF SeqsInv, TidsInv, QueueInv, Newest, Complete
<1>7. DOMAIN inflight'[z] = {}
  BY <1>2
<1>8. InflightInv'
  BY <1>1, <1>2, <1>7 DEF InflightInv
<1>9. \A y \in Sessions, p \in Oids : Stale(y, p)' <=> Stale(y, p)
  BY <1>1 DEF Stale
<1>10. UpInv'
  <2> SUFFICES ASSUME NEW y \in up', NEW p \in Oids, Stale(y, p)'
               PROVE  \E k \in DOMAIN inflight'[y] : inflight'[y][k].oid = p
    BY Zenon DEF UpInv
  <2>1. y \in Sessions \ {z} /\ y \in up
    BY <1>1 DEF TypeOK
  <2>2. inflight'[y] = inflight[y] /\ Stale(y, p)
    BY <1>2, <1>9, <2>1
  <2>3. \E k \in DOMAIN inflight[y] : inflight[y][k].oid = p
    BY <2>1, <2>2, Zenon DEF UpInv
  <2> QED
    BY <2>2, <2>3, Zenon
<1>11. ASSUME NEW p \in Oids, Stale(z, p) PROVE serial[p] > seen[z]
  <2>1. PICK k \in DOMAIN inflight[z] : inflight[z][k].oid = p
    BY <1>11 DEF UpInv, Lose
  <2>2. inflight[z][k].tid \in 1 .. MaxTid
    BY Invalidations DEF TypeOK
  <2>3. seen[z] < inflight[z][k].tid /\ inflight[z][k].tid <= serial[p]
    BY <2>1 DEF InflightInv
  <2>4. seen[z] \in Int /\ serial[p] \in Int
    BY DEF TypeOK
  <2> QED
    BY <2>2, <2>3, <2>4
<1>12. DownInv'
  BY <1>1, <1>2, <1>9, <1>11 DEF DownInv
<1> QED
  BY <1>5, <1>6, <1>8, <1>10, <1>12

\* The first message goes and the record is no longer in the cache.
LEMMA DeliverKeeps ==
    ASSUME CacheInv, NEW z \in Sessions, Deliver(z)
    PROVE  CacheInv'
<1> USE DEF CacheInv
<1> DEFINE q == inflight[z]
           o == q[1].oid
<1>1. UNCHANGED <<owner, serial, tid, invq, up>>
  BY DEF Deliver, server
<1>2. /\ q \in Seq(Invalidation) /\ q # <<>>
      /\ q[1] \in Invalidation /\ q[1].tid \in 1 .. MaxTid /\ o \in Oids
      /\ Head(q) = q[1] /\ Tail(q) \in Seq(Invalidation)
      /\ DOMAIN q = 1 .. Len(q) /\ Len(q) \in Nat \ {0}
      /\ DOMAIN Tail(q) = 1 .. Len(q) - 1
      /\ \A k \in 1 .. Len(q) - 1 : Tail(q)[k] = q[k + 1]
  <2>1. q \in Seq(Invalidation) /\ q # <<>>
    BY DEF Deliver, SeqsInv
  <2>2. /\ Head(q) = q[1] /\ Tail(q) \in Seq(Invalidation)
        /\ DOMAIN q = 1 .. Len(q) /\ Len(q) \in Nat \ {0}
        /\ DOMAIN Tail(q) = 1 .. Len(q) - 1
        /\ \A k \in 1 .. Len(q) - 1 : Tail(q)[k] = q[k + 1]
    BY <2>1, Arrived
  <2>3. 1 \in 1 .. Len(q)
    BY <2>2
  <2>4. q[1] \in Invalidation
    BY <2>1, <2>3, Domains
  <2> QED
    BY <2>1, <2>2, <2>4, Invalidations
<1>3. inflight'[z] = Tail(q) /\ \A y \in Sessions \ {z} : inflight'[y] = inflight[y]
  BY DEF Deliver, SeqsInv
<1>4. inflight' \in [Sessions -> Seq(Invalidation)]
  BY <1>2 DEF Deliver, SeqsInv
<1>5. seen'[z] = q[1].tid /\ \A y \in Sessions \ {z} : seen'[y] = seen[y]
  BY <1>2 DEF Deliver, TypeOK
<1>6. /\ cache'[z][o] = -1 /\ \A p \in Oids \ {o} : cache'[z][p] = cache[z][p]
      /\ \A y \in Sessions \ {z} : cache'[y] = cache[y]
  BY <1>2 DEF Deliver, TypeOK
<1>7. TypeOK'
  <2>1. cache' \in [Sessions -> [Oids -> -1 .. MaxTid]]
    BY <1>2, BoundsAssumption DEF Deliver, TypeOK
  <2>2. seen' \in [Sessions -> 0 .. MaxTid]
    BY <1>2 DEF Deliver, TypeOK
  <2>3. \A y \in Sessions : \A k \in DOMAIN inflight'[y] : inflight'[y][k] \in Invalidation
    BY <1>4, Domains
  <2> QED
    BY <1>1, <2>1, <2>2, <2>3 DEF TypeOK
<1>8. /\ seen[z] < q[1].tid
      /\ \A k \in 1 .. Len(q) : q[k].tid <= serial[q[k].oid]
      /\ \A j, k \in 1 .. Len(q) : j < k => q[j].tid < q[k].tid
  BY <1>2 DEF InflightInv
<1>9. TidsInv'
  <2>1. q[1].tid <= serial[o] /\ serial[o] <= tid
    BY <1>2, <1>8 DEF TidsInv
  <2>2. serial[o] \in Int /\ tid \in Int
    BY <1>2 DEF TypeOK
  <2>3. q[1].tid <= tid
    BY <1>2, <2>1, <2>2
  <2> QED
    BY <1>1, <1>5, <2>3 DEF TidsInv
<1>10. SeqsInv' /\ QueueInv'
  BY <1>1, <1>4 DEF SeqsInv, QueueInv, Newest, Complete
<1>11. InflightInv'
  <2>1. ASSUME NEW k \in DOMAIN inflight'[z]
        PROVE  /\ k + 1 \in 1 .. Len(q) /\ 1 < k + 1 /\ k \in Int
               /\ inflight'[z][k] = q[k + 1]
    BY <1>2, <1>3
  <2>2. ASSUME NEW k \in DOMAIN inflight'[z]
        PROVE  /\ seen'[z] < inflight'[z][k].tid
               /\ inflight'[z][k].tid <= serial[inflight'[z][k].oid]
    <3>1. k + 1 \in 1 .. Len(q) /\ 1 \in 1 .. Len(q) /\ 1 < k + 1 /\ inflight'[z][k] = q[k + 1]
      BY <1>2, <2>1
    <3> QED
      BY <1>5, <1>8, <3>1
  <2>3. ASSUME NEW j \in DOMAIN inflight'[z], NEW k \in DOMAIN inflight'[z], j < k
        PROVE  inflight'[z][j].tid < inflight'[z][k].tid
    <3>1. j + 1 < k + 1 /\ j + 1 \in 1 .. Len(q) /\ k + 1 \in 1 .. Len(q)
      BY <2>1, <2>3
    <3> QED
      BY <1>8, <2>1, <3>1
  <2>4. \A y \in Sessions \ {z} :
          /\ \A k \in DOMAIN inflight'[y] :
              /\ seen'[y] < inflight'[y][k].tid
              /\ inflight'[y][k].tid <= serial[inflight'[y][k].oid]
          /\ \A j, k \in DOMAIN inflight'[y] :
              j < k => inflight'[y][j].tid < inflight'[y][k].tid
    BY <1>3, <1>5, Zenon DEF InflightInv
  <2> QED
    BY <1>1, <2>2, <2>3, <2>4, Zenon DEF InflightInv
<1>12. z \in up
  BY <1>2 DEF DownInv
<1>13. /\ \A y \in Sessions \ {z}, p \in Oids : Stale(y, p)' <=> Stale(y, p)
       /\ \A p \in Oids : Stale(z, p)' => Stale(z, p) /\ p # o
  BY <1>1, <1>6 DEF Stale
<1>14. ASSUME NEW p \in Oids, Stale(z, p)'
       PROVE  \E k \in DOMAIN inflight'[z] : inflight'[z][k].oid = p
  <2>1. PICK k \in 1 .. Len(q) : q[k].oid = p
    BY <1>2, <1>12, <1>13, <1>14 DEF UpInv
  <2>2. k # 1
    BY <1>13, <1>14, <2>1
  <2>3. k - 1 \in 1 .. Len(q) - 1 /\ (k - 1) + 1 = k
    BY <1>2, <2>2
  <2>4. inflight'[z][k - 1] = q[(k - 1) + 1]
    BY <1>2, <1>3, <2>3
  <2>5. inflight'[z][k - 1].oid = p
    BY <2>1, <2>3, <2>4
  <2> QED
    BY <1>2, <1>3, <2>3, <2>5
<1>15. UpInv'
  <2> SUFFICES ASSUME NEW y \in up', NEW p \in Oids, Stale(y, p)'
               PROVE  \E k \in DOMAIN inflight'[y] : inflight'[y][k].oid = p
    BY Zenon DEF UpInv
  <2>1. y \in Sessions /\ y \in up
    BY <1>1 DEF TypeOK
  <2>2. CASE y = z
    BY <1>14, <2>2, Zenon
  <2>3. CASE y # z
    <3>1. inflight'[y] = inflight[y] /\ Stale(y, p)
      BY <1>3, <1>13, <2>1, <2>3
    <3>2. \E k \in DOMAIN inflight[y] : inflight[y][k].oid = p
      BY <2>1, <3>1, Zenon DEF UpInv
    <3> QED
      BY <3>1, <3>2, Zenon
  <2> QED
    BY <2>2, <2>3
<1>16. DownInv'
  BY <1>1, <1>3, <1>5, <1>12, <1>13 DEF DownInv
<1> QED
  BY <1>7, <1>9, <1>10, <1>11, <1>15, <1>16
\* The new connection's cache has no record that the client missed.
LEMMA Verified ==
    ASSUME CacheInv, NEW z \in Sessions, Reconnect(z), NEW o \in Oids, Stale(z, o)
    PROVE  cache'[z][o] = -1
<1> USE DEF CacheInv
<1>1. /\ serial[o] > seen[z] /\ serial[o] <= tid
      /\ serial[o] \in Int /\ seen[z] \in Int /\ tid \in Int
  BY DEF Reconnect, DownInv, TidsInv, TypeOK
<1>2. seen[z] # tid
  BY <1>1
<1> DEFINE reaches == invq # <<>> /\ invq[Len(invq)].tid <= seen[z]
           since == {invq[k].oid : k \in {j \in DOMAIN invq : invq[j].tid > seen[z]}}
<1>3. ASSUME reaches PROVE o \in since
  <2>1. Len(invq) \in DOMAIN invq /\ invq[Len(invq)].tid \in Int
    <3>1. invq \in Seq(Invalidation) /\ invq # <<>>
      BY <1>3 DEF SeqsInv
    <3>2. Len(invq) \in Nat /\ Len(invq) # 0 /\ DOMAIN invq = 1 .. Len(invq)
      BY <3>1, Domains, EmptySeq
    <3>3. Len(invq) \in DOMAIN invq
      BY <3>2
    <3> QED
      BY <3>3, Invalidations DEF TypeOK
  <2>2. serial[o] >= invq[Len(invq)].tid
    BY <1>1, <1>3, <2>1
  <2>3. PICK k \in DOMAIN invq : invq[k].oid = o /\ invq[k].tid = serial[o]
    BY <1>3, <2>2, Zenon DEF QueueInv, Complete
  <2>4. invq[k].tid > seen[z]
    BY <1>1, <2>3
  <2> QED
    BY <2>3, <2>4, Zenon
<1>4. cache'[z] = [p \in Oids |-> IF seen[z] = tid \/ (reaches /\ p \notin since)
                                  THEN cache[z][p] ELSE -1]
  <2> HIDE DEF reaches, since
  <2>1. cache' = [cache EXCEPT ![z] = [p \in Oids |->
                    IF seen[z] = tid \/ (reaches /\ p \notin since) THEN @[p] ELSE -1]]
    BY DEF Reconnect, reaches, since
  <2> QED
    BY <2>1 DEF TypeOK
<1> HIDE DEF reaches, since
<1> QED
  BY <1>2, <1>3, <1>4

\* Nothing is on its way to a client without a connection.
LEMMA ReconnectKeeps ==
    ASSUME CacheInv, NEW z \in Sessions, Reconnect(z)
    PROVE  CacheInv'
<1> USE DEF CacheInv
<1>1. UNCHANGED <<owner, serial, tid, invq, inflight>> /\ up' = up \cup {z} /\ z \notin up
  BY DEF Reconnect, server
<1>2. seen'[z] = tid /\ \A y \in Sessions \ {z} : seen'[y] = seen[y]
  BY DEF Reconnect, TypeOK
<1>3. /\ \A y \in Sessions \ {z} : cache'[y] = cache[y]
      /\ \A o \in Oids : cache'[z][o] \in {cache[z][o], -1}
      /\ cache' \in [Sessions -> [Oids -> -1 .. MaxTid]]
  <2> DEFINE kept(o) == \/ seen[z] = tid
                        \/ /\ invq # <<>> /\ invq[Len(invq)].tid <= seen[z]
                           /\ o \notin {invq[k].oid :
                                k \in {j \in DOMAIN invq : invq[j].tid > seen[z]}}
  <2>1. cache' = [cache EXCEPT ![z] = [o \in Oids |-> IF kept(o) THEN @[o] ELSE -1]]
    BY DEF Reconnect
  <2> HIDE DEF kept
  <2>2. -1 \in -1 .. MaxTid
    BY BoundsAssumption
  <2>3. [o \in Oids |-> IF kept(o) THEN cache[z][o] ELSE -1] \in [Oids -> -1 .. MaxTid]
    BY <2>2 DEF TypeOK
  <2> QED
    BY <2>1, <2>3 DEF TypeOK
<1>4. TypeOK'
  BY <1>1, <1>3 DEF Reconnect, TypeOK
<1>5. SeqsInv' /\ QueueInv'
  BY <1>1 DEF SeqsInv, QueueInv, Newest, Complete
<1>6. TidsInv'
  <2>1. tid \in Int /\ tid <= tid
    BY DEF TypeOK
  <2>2. \A y \in Sessions : seen'[y] <= tid
    BY <1>2, <2>1 DEF TidsInv
  <2> QED
    BY <1>1, <2>2 DEF TidsInv
<1>7. inflight[z] = <<>> /\ DOMAIN inflight[z] = {}
  BY <1>1 DEF DownInv
<1>8. InflightInv'
  <2> SUFFICES ASSUME NEW y \in Sessions
               PROVE  /\ \A k \in DOMAIN inflight[y] :
                          /\ seen'[y] < inflight[y][k].tid
                          /\ inflight[y][k].tid <= serial[inflight[y][k].oid]
                      /\ \A j, k \in DOMAIN inflight[y] :
                          j < k => inflight[y][j].tid < inflight[y][k].tid
    BY <1>1, Zenon DEF InflightInv
  <2>1. CASE y = z
    BY <1>7, <2>1, Zenon
  <2>2. CASE y # z
    BY <1>2, <2>2, Zenon DEF InflightInv
  <2> QED
    BY <2>1, <2>2
<1>9. /\ \A y \in Sessions \ {z}, o \in Oids : Stale(y, o)' <=> Stale(y, o)
      /\ \A o \in Oids : ~Stale(z, o)'
  <2>1. \A o \in Oids : Stale(z, o) => cache'[z][o] = -1
    BY Verified
  <2> QED
    BY <1>1, <1>3, <2>1 DEF Stale
<1>10. UpInv'
  <2> SUFFICES ASSUME NEW y \in up', NEW p \in Oids, Stale(y, p)'
               PROVE  \E k \in DOMAIN inflight'[y] : inflight'[y][k].oid = p
    BY Zenon DEF UpInv
  <2>1. y \in Sessions /\ y # z
    BY <1>1, <1>9 DEF TypeOK
  <2>2. y \in up /\ Stale(y, p)
    BY <1>1, <1>9, <2>1
  <2> QED
    BY <1>1, <2>2, Zenon DEF UpInv
<1>11. DownInv'
  BY <1>1, <1>2, <1>9 DEF DownInv
<1> QED
  BY <1>4, <1>5, <1>6, <1>8, <1>10, <1>11
\* A store tells the other sessions of the same user that are connected.
LEMMA StoreKeeps ==
    ASSUME CacheInv, NEW z \in Sessions, NEW o \in Oids, StoreRecord(z, o)
    PROVE  CacheInv'
<1> USE DEF CacheInv
<1> DEFINE n == tid + 1
           i == [tid |-> n, oid |-> o]
           told(y) == y \in Notified(z)
<1>1. /\ z \in up /\ up' = up /\ tid < MaxTid /\ tid' = n
      /\ owner' = [owner EXCEPT ![o] = UserOf[z]]
      /\ serial' = [serial EXCEPT ![o] = n]
      /\ invq' = Queued(invq, i)
      /\ cache' = [cache EXCEPT ![z][o] = n]
      /\ seen' = [seen EXCEPT ![z] = n]
      /\ inflight' = [y \in Sessions |-> IF told(y) THEN Append(inflight[y], i) ELSE inflight[y]]
      /\ inflight[z] = <<>>
  BY DEF StoreRecord
<1>2. n \in 1 .. MaxTid /\ tid \in Nat /\ n \in Nat /\ tid < n
  BY <1>1, BoundsAssumption DEF TypeOK
<1>3. UserOf[z] \in Users /\ i \in Invalidation /\ i.tid = n /\ i.oid = o
  BY <1>2, SessionsAssumption DEF Invalidation
<1>4. /\ invq' \in Seq(Invalidation) /\ Len(invq') <= invq_bound
      /\ \A k \in DOMAIN invq' : invq'[k].tid <= n
      /\ Newest(invq') /\ Complete(invq', serial')
  <2>1. /\ invq \in Seq(Invalidation) /\ Len(invq) <= invq_bound
        /\ serial \in [Oids -> Nat] /\ \A p \in Oids : serial[p] <= tid
        /\ \A k \in DOMAIN invq : invq[k].tid <= tid
        /\ Newest(invq) /\ Complete(invq, serial)
    BY DEF SeqsInv, TypeOK, TidsInv, QueueInv
  <2> HIDE DEF CacheInv
  <2> QED
    BY <1>1, <1>2, <2>1, QueueKept
<1> HIDE DEF i, n, told
<1>5. \A y \in Sessions : inflight'[y] = IF told(y) THEN Append(inflight[y], i) ELSE inflight[y]
  BY <1>1
<1>6. ASSUME NEW y \in Sessions
      PROVE  /\ inflight[y] \in Seq(Invalidation)
             /\ DOMAIN inflight[y] = 1 .. Len(inflight[y]) /\ Len(inflight[y]) \in Nat
             /\ Append(inflight[y], i) \in Seq(Invalidation)
             /\ DOMAIN Append(inflight[y], i) = DOMAIN inflight[y] \cup {Len(inflight[y]) + 1}
             /\ Append(inflight[y], i)[Len(inflight[y]) + 1] = i
             /\ \A k \in DOMAIN inflight[y] : Append(inflight[y], i)[k] = inflight[y][k]
  <2>1. inflight[y] \in Seq(Invalidation)
    BY DEF SeqsInv
  <2> QED
    BY <1>3, <2>1, Sent
<1>7. inflight' \in [Sessions -> Seq(Invalidation)]
  BY <1>1, <1>6
<1>8. serial'[o] = n /\ \A p \in Oids \ {o} : serial'[p] = serial[p]
  BY <1>1 DEF TypeOK
<1>9. seen'[z] = n /\ \A y \in Sessions \ {z} : seen'[y] = seen[y]
  BY <1>1 DEF TypeOK
<1>10. /\ cache'[z][o] = n /\ \A p \in Oids \ {o} : cache'[z][p] = cache[z][p]
       /\ \A y \in Sessions \ {z} : cache'[y] = cache[y]
  BY <1>1 DEF TypeOK
<1>11. owner'[o] = UserOf[z] /\ \A p \in Oids \ {o} : owner'[p] = owner[p]
  BY <1>1 DEF TypeOK
<1>12. TypeOK'
  <2>1. /\ owner' \in [Oids -> Users \cup {NoOwner}] /\ serial' \in [Oids -> 0 .. MaxTid]
        /\ tid' \in 0 .. MaxTid /\ seen' \in [Sessions -> 0 .. MaxTid] /\ up' \subseteq Sessions
    BY <1>1, <1>2, <1>3 DEF TypeOK
  <2>2. cache' \in [Sessions -> [Oids -> -1 .. MaxTid]]
    BY <1>1, <1>2 DEF TypeOK
  <2>3. /\ \A k \in DOMAIN invq' : invq'[k] \in Invalidation
        /\ \A y \in Sessions : \A k \in DOMAIN inflight'[y] : inflight'[y][k] \in Invalidation
    BY <1>4, <1>7, Domains
  <2> QED
    BY <1>4, <2>1, <2>2, <2>3 DEF TypeOK
<1>13. SeqsInv' /\ QueueInv'
  BY <1>4, <1>7 DEF SeqsInv, QueueInv
<1>14. TidsInv'
  <2>1. ASSUME NEW p \in Oids PROVE serial'[p] <= n
    <3>1. serial[p] <= tid /\ serial[p] \in Nat /\ serial'[p] \in {n, serial[p]}
      BY <1>8 DEF TidsInv, TypeOK
    <3> QED
      BY <1>2, <3>1
  <2>2. ASSUME NEW y \in Sessions PROVE seen'[y] <= n
    <3>1. seen[y] <= tid /\ seen[y] \in Nat /\ seen'[y] \in {n, seen[y]}
      BY <1>9 DEF TidsInv, TypeOK
    <3> QED
      BY <1>2, <3>1
  <2> QED
    BY <1>1, <1>4, <2>1, <2>2 DEF TidsInv
<1>15. InflightInv'
  <2> SUFFICES ASSUME NEW y \in Sessions
               PROVE  /\ \A k \in DOMAIN inflight'[y] :
                          /\ seen'[y] < inflight'[y][k].tid
                          /\ inflight'[y][k].tid <= serial'[inflight'[y][k].oid]
                      /\ \A j, k \in DOMAIN inflight'[y] :
                          j < k => inflight'[y][j].tid < inflight'[y][k].tid
    BY Zenon DEF InflightInv
  <2> DEFINE q == inflight[y]
             m == Len(q) + 1
  <2>1. CASE y = z
    <3>1. DOMAIN inflight'[y] = {}
      BY <1>1, <1>5, <2>1 DEF told, Notified
    <3> QED
      BY <3>1, Zenon
  <2>2. ASSUME y # z, NEW k \in DOMAIN q
        PROVE  /\ seen'[y] < q[k].tid /\ q[k].tid <= serial'[q[k].oid] /\ q[k].tid < n
               /\ q[k].tid \in Nat
    <3>1. q[k].tid \in 1 .. MaxTid /\ q[k].oid \in Oids
      BY Invalidations DEF TypeOK
    <3>2. seen[y] < q[k].tid /\ q[k].tid <= serial[q[k].oid]
      BY DEF InflightInv
    <3>3. serial[q[k].oid] <= tid /\ serial[q[k].oid] \in Nat
      BY <3>1 DEF TidsInv, TypeOK
    <3>4. serial'[q[k].oid] \in {n, serial[q[k].oid]}
      BY <1>8, <3>1
    <3>5. q[k].tid \in Nat /\ q[k].tid < n
      BY <1>2, <3>1, <3>2, <3>3
    <3> QED
      BY <1>2, <1>9, <2>2, <3>2, <3>3, <3>4, <3>5
  <2>3. ASSUME NEW j \in DOMAIN q, NEW k \in DOMAIN q, j < k PROVE q[j].tid < q[k].tid
    BY <2>3 DEF InflightInv
  <2>4. CASE y # z /\ ~told(y)
    <3>1. inflight'[y] = q
      BY <1>5, <2>4
    <3> HIDE DEF q, CacheInv
    <3> QED
      BY <2>2, <2>3, <2>4, <3>1
  <2>5. CASE y # z /\ told(y)
    <3> DEFINE r == Append(q, i)
    <3>1. inflight'[y] = r
      BY <1>5, <2>5
    <3>2. /\ DOMAIN q = 1 .. Len(q) /\ Len(q) \in Nat /\ DOMAIN r = DOMAIN q \cup {m}
          /\ r[m] = i /\ \A k \in DOMAIN q : r[k] = q[k]
      BY <1>6
    <3>3. seen'[y] < n /\ serial'[o] = n
      BY <1>2, <1>8, <1>9, <2>5 DEF TidsInv, TypeOK
    <3> HIDE DEF q, r, CacheInv
    <3>4. ASSUME NEW k \in DOMAIN r
          PROVE  seen'[y] < r[k].tid /\ r[k].tid <= serial'[r[k].oid]
      <4>1. CASE k \in DOMAIN q
        BY <2>2, <2>5, <3>2, <4>1
      <4>2. CASE k = m
        BY <1>2, <1>3, <3>2, <3>3, <4>2
      <4> QED
        BY <3>2, <4>1, <4>2
    <3>5. ASSUME NEW j \in DOMAIN r, NEW k \in DOMAIN r, j < k PROVE r[j].tid < r[k].tid
      <4>1. j \in DOMAIN q /\ r[j] = q[j]
        BY <3>2, <3>5
      <4>2. CASE k \in DOMAIN q
        BY <2>3, <3>2, <3>5, <4>1, <4>2
      <4>3. CASE k = m
        BY <1>3, <2>2, <2>5, <3>2, <4>1, <4>3
      <4> QED
        BY <3>2, <4>2, <4>3
    <3> QED
      BY <3>1, <3>4, <3>5
  <2> QED
    BY <2>1, <2>4, <2>5
<1>16. /\ \A p \in Oids : Stale(z, p)' => p # o /\ Stale(z, p)
       /\ \A y \in Sessions \ {z}, p \in Oids \ {o} : Stale(y, p)' => Stale(y, p)
       /\ \A y \in Sessions \ {z} : Stale(y, o)' => UserOf[y] = UserOf[z]
  BY <1>8, <1>10, <1>11 DEF Stale
<1>17. UpInv'
  <2> SUFFICES ASSUME NEW y \in up', NEW p \in Oids, Stale(y, p)'
               PROVE  \E k \in DOMAIN inflight'[y] : inflight'[y][k].oid = p
    BY Zenon DEF UpInv
  <2>1. y \in Sessions /\ y \in up
    BY <1>1 DEF TypeOK
  <2>2. CASE p # o
    <3>1. Stale(y, p)
      BY <1>16, <2>1, <2>2
    <3>2. PICK k \in DOMAIN inflight[y] : inflight[y][k].oid = p
      BY <2>1, <3>1, Zenon DEF UpInv
    <3>3. k \in DOMAIN inflight'[y] /\ inflight'[y][k] = inflight[y][k]
      BY <1>5, <1>6, <2>1
    <3> QED
      BY <3>2, <3>3, Zenon
  <2>3. CASE p = o
    <3>1. y # z /\ UserOf[y] = UserOf[z]
      BY <1>16, <2>1, <2>3
    <3>2. told(y)
      BY <2>1, <3>1 DEF told, Notified
    <3>3. inflight'[y] = Append(inflight[y], i)
      BY <1>5, <2>1, <3>2
    <3>4. /\ Len(inflight[y]) + 1 \in DOMAIN inflight'[y]
          /\ inflight'[y][Len(inflight[y]) + 1] = i
      BY <1>6, <2>1, <3>3
    <3> QED
      BY <1>3, <2>3, <3>4, Zenon
  <2> QED
    BY <2>2, <2>3
<1>18. DownInv'
  <2> SUFFICES ASSUME NEW y \in Sessions \ up
               PROVE  /\ inflight'[y] = <<>>
                      /\ \A p \in Oids : Stale(y, p)' => serial'[p] > seen'[y]
    BY <1>1, Zenon DEF DownInv
  <2>1. y # z /\ ~told(y)
    BY <1>1 DEF told, Notified
  <2>2. inflight'[y] = <<>>
    BY <1>5, <2>1 DEF DownInv
  <2>3. seen'[y] = seen[y] /\ seen[y] \in Int /\ seen[y] <= tid
    BY <1>9, <2>1 DEF TypeOK, TidsInv
  <2>4. ASSUME NEW p \in Oids, Stale(y, p)' PROVE serial'[p] > seen'[y]
    <3>1. CASE p = o
      BY <1>2, <1>8, <2>3, <3>1
    <3>2. CASE p # o
      <4>1. Stale(y, p)
        BY <1>16, <2>1, <2>4, <3>2
      <4> QED
        BY <1>8, <2>3, <3>2, <4>1 DEF DownInv
    <3> QED
      BY <3>1, <3>2
  <2> QED
    BY <2>2, <2>4
<1> QED
  BY <1>12, <1>13, <1>14, <1>15, <1>17, <1>18

LEMMA NextCache == CacheInv /\ [Next]_vars => CacheInv'
<1>1. ASSUME CacheInv, UNCHANGED vars PROVE CacheInv'
  <2>1. UNCHANGED <<owner, serial, tid, invq, up, cache, seen, inflight>>
    BY <1>1 DEF vars, server, client
  <2> QED
    BY <1>1, <2>1 DEF CacheInv, TypeOK, SeqsInv, TidsInv, QueueInv, Newest, Complete,
                      InflightInv, UpInv, DownInv, Stale
<1> QED
  BY <1>1, LoadKeeps, LoseKeeps, DeliverKeeps, ReconnectKeeps, StoreKeeps DEF Next

LEMMA CacheInvariance == Spec => []CacheInv
BY InitCache, NextCache, PTL DEF Spec

\* A connected client's copy of a record of its user is current, or its
\* invalidation is on the way, whatever was lost and however short the queue is
\* (ZEO's cache verification, OwnerStorage's invalidations).
THEOREM NoStaleCopies == Spec => []CacheCoherent
<1>1. CacheInv => CacheCoherent
  BY DEF CacheInv, UpInv, Stale, CacheCoherent
<1> QED
  BY <1>1, CacheInvariance, PTL
=============================================================================
