--------------------------- MODULE ThreadsProofs ---------------------------
(***************************************************************************)
(* What the threads of one process share.                                  *)
(*                                                                         *)
(* The indexing queue: optimize() reduces and sorts any list of            *)
(* operations; of one of REINDEX operations it loses nothing, and a        *)
(* processed queue leaves an index with the present values, also when the  *)
(* processor raised before.  optimize() is a fold over a list: ReduceSteps *)
(* gives its value from entry to entry, and what is said of a list is      *)
(* shown of its front part by part (Upwards).                              *)
(*                                                                         *)
(* The pool of connections, for any number of threads and connections,     *)
(* whatever order disconnects, deaths of threads and a fork come in: the   *)
(* pool has only connections of its own, and, as long as no thread         *)
(* disconnects, each once and only while it is closed, and no connection   *)
(* is used by two threads.                                                 *)
(***************************************************************************)
EXTENDS IndexQueue, ConnPool, FiniteSetTheorems, SequenceTheorems, TLAPS

\* A set of natural numbers has a least element.
LEMMA LeastOf ==
    ASSUME NEW T \in SUBSET Nat, T # {}
    PROVE  \E n \in T : \A m \in T : n <= m
  <1> DEFINE UpTo(n) == {k \in Nat : k <= n}
             U == {UpTo(n) : n \in T}
             R == StrictSubsetOrdering(Nat)
  <1>1. \A n \in Nat : IsFiniteSet(UpTo(n))
    BY FS_BoundedSetOfNaturals
  <1>2. IsWellFoundedOn(R, FiniteSubsetsOf(Nat))
    BY FS_StrictSubsetOrderingWellFounded
  <1>3. U \subseteq FiniteSubsetsOf(Nat) /\ U # {}
    BY <1>1 DEF FiniteSubsetsOf
  <1>4. \E x \in U : \A y \in U : ~ (<<y, x>> \in R)
    <2> HIDE DEF U, R
    <2> QED
      BY <1>2, <1>3, WFMin
  <1>5. PICK n \in T : \A m \in T : ~ (<<UpTo(m), UpTo(n)>> \in R)
    BY <1>4
  <1>6. ASSUME NEW m \in T, m < n PROVE FALSE
    <2>1. n \in UpTo(n) /\ n \notin UpTo(m) /\ UpTo(m) \subseteq UpTo(n)
      BY <1>6
    <2>2. <<UpTo(m), UpTo(n)>> \in R
      BY <2>1 DEF StrictSubsetOrdering
    <2> QED
      BY <1>5, <1>6, <2>2
  <1> QED
    BY <1>6

\* What holds of 1 and goes from each number to the next holds up to n: the
\* numbers at which it does not hold would have a least one.
LEMMA Upwards ==
    ASSUME NEW n \in Nat, NEW Good, n > 0 => 1 \in Good,
           \A k \in 1 .. n - 1 : k \in Good => k + 1 \in Good
    PROVE  \A k \in 1 .. n : k \in Good
  <1> DEFINE Bad == {k \in 1 .. n : k \notin Good}
  <1> SUFFICES ASSUME Bad # {} PROVE FALSE
    OBVIOUS
  <1>1. Bad \in SUBSET Nat
    OBVIOUS
  <1>2. PICK k \in Bad : \A m \in Bad : k <= m
    BY <1>1, LeastOf
  <1>3. k # 1 /\ k \in 1 .. n
    BY <1>2
  <1>4. k - 1 \in 1 .. n - 1 /\ k - 1 \in 1 .. n /\ ~(k <= k - 1)
    BY <1>3
  <1>5. k - 1 \notin Bad
    BY <1>2, <1>4
  <1>6. (k - 1) + 1 \in Good
    BY <1>4, <1>5
  <1> QED
    BY <1>2, <1>3, <1>6

\* optimize() goes through the list from its front: what it holds after k entries
\* is f[k].
LEMMA ReduceSteps ==
    ASSUME NEW q \in Seq(Entry)
    PROVE  \E f : /\ f[0] = {}
                  /\ \A k \in 1 .. Len(q) : f[k] = Reduce(f[k - 1], q[k])
                  /\ FoldLeft(Reduce, {}, q) = f[Len(q)]
  <1> DEFINE n == Len(q)
             Body(h, D) == [S \in SUBSET D |->
                              IF S = {} THEN {} ELSE Reduce(h[S \ {Max(S)}], q[Max(S)])]
             Has(m) == \E h : h = Body(h, 1 .. m)
             Good == {m \in 1 .. n : Has(m)}
  <1>1. n \in Nat /\ DOMAIN q = 1 .. n
    OBVIOUS
  <1>2. Has(0)
    <2> DEFINE h == [S \in SUBSET (1 .. 0) |-> {}]
    <2>1. 1 .. 0 = {}
      OBVIOUS
    <2>2. h = Body(h, 1 .. 0)
      BY <2>1
    <2> WITNESS h
    <2> QED
      BY <2>2
  <1>3. ASSUME NEW m \in Nat, Has(m) PROVE Has(m + 1)
    <2>1. PICK h : h = Body(h, 1 .. m)
      BY <1>3
    <2> DEFINE g == [S \in SUBSET (1 .. m + 1) |->
                       IF m + 1 \in S THEN Reduce(h[S \ {m + 1}], q[m + 1]) ELSE h[S]]
    <2>2. \A S \in SUBSET (1 .. m) : h[S] = IF S = {} THEN {}
                                             ELSE Reduce(h[S \ {Max(S)}], q[Max(S)])
      BY <2>1
    <2>3. \A S \in SUBSET (1 .. m) : g[S] = h[S]
      <3> TAKE S \in SUBSET (1 .. m)
      <3>1. S \in SUBSET (1 .. m + 1) /\ m + 1 \notin S
        OBVIOUS
      <3> QED
        BY <3>1
    <2>4. ASSUME NEW S \in SUBSET (1 .. m + 1)
          PROVE  g[S] = IF S = {} THEN {} ELSE Reduce(g[S \ {Max(S)}], q[Max(S)])
      <3>1. CASE m + 1 \in S
        <4>1. Max(S) = m + 1
          <5>1. m + 1 \in S /\ \A y \in S : m + 1 >= y
            BY <3>1
          <5>2. \A x \in S : (\A y \in S : x >= y) => x = m + 1
            BY <3>1
          <5> QED
            BY <5>1, <5>2 DEF Max
        <4>2. S \ {m + 1} \in SUBSET (1 .. m)
          OBVIOUS
        <4>3. g[S] = Reduce(h[S \ {m + 1}], q[m + 1])
          BY <3>1
        <4>4. g[S \ {m + 1}] = h[S \ {m + 1}]
          BY <2>3, <4>2
        <4> HIDE DEF g
        <4> QED
          BY <3>1, <4>1, <4>3, <4>4
      <3>2. CASE m + 1 \notin S
        <4>1. S \in SUBSET (1 .. m)
          BY <3>2
        <4>2. g[S] = h[S]
          BY <2>3, <4>1
        <4> HIDE DEF g
        <4>3. CASE S = {}
          BY <2>2, <4>1, <4>2, <4>3
        <4>4. CASE S # {}
          <5>1. S \ {Max(S)} \in SUBSET (1 .. m)
            BY <4>1
          <5>2. g[S \ {Max(S)}] = h[S \ {Max(S)}]
            BY <2>3, <5>1
          <5>3. h[S] = Reduce(h[S \ {Max(S)}], q[Max(S)])
            BY <2>2, <4>1, <4>4
          <5> QED
            BY <4>2, <4>4, <5>2, <5>3
        <4> QED
          BY <4>3, <4>4
      <3> QED
        BY <3>1, <3>2
    <2>5. g = Body(g, 1 .. m + 1)
      BY <2>4
    <2> WITNESS g
    <2> QED
      BY <2>5
  <1>4. Has(n)
    <2> HIDE DEF Has, n
    <2>1. n > 0 => 1 \in Good
      <3>1. Has(0 + 1)
        BY <1>2, <1>3
      <3> QED
        BY <1>1, <3>1
    <2>2. \A k \in 1 .. n - 1 : k \in Good => k + 1 \in Good
      BY <1>1, <1>3
    <2>3. \A k \in 1 .. n : k \in Good
      <3> HIDE DEF Good
      <3> QED
        BY <1>1, <2>1, <2>2, Upwards
    <2> QED
      BY <1>1, <1>2, <2>3
  <1>5. PICK h : h = Body(h, DOMAIN q) /\ FoldLeft(Reduce, {}, q) = h[DOMAIN q]
    <2>1. \E h : h = Body(h, DOMAIN q)
      BY <1>1, <1>4
    <2>2. FoldLeft(Reduce, {}, q) = (CHOOSE h : h = Body(h, DOMAIN q))[DOMAIN q]
      BY DEF FoldLeft, MapThenFoldSet
    <2> QED
      BY <2>1, <2>2
  <1> DEFINE f == [k \in 0 .. n |-> h[1 .. k]]
  <1>6. \A S \in SUBSET (1 .. n) : h[S] = IF S = {} THEN {}
                                           ELSE Reduce(h[S \ {Max(S)}], q[Max(S)])
    BY <1>1, <1>5
  <1>7. f[0] = {}
    <2>1. 1 .. 0 = {} /\ {} \in SUBSET (1 .. n)
      OBVIOUS
    <2>2. h[{}] = {}
      BY <1>6, <2>1
    <2>3. 0 \in 0 .. n
      BY <1>1
    <2> HIDE DEF n
    <2> QED
      BY <2>1, <2>2, <2>3
  <1>8. ASSUME NEW k \in 1 .. n PROVE f[k] = Reduce(f[k - 1], q[k])
    <2>1. k \in 0 .. n /\ k - 1 \in 0 .. n /\ 1 .. k \in SUBSET (1 .. n) /\ k \in 1 .. k
      BY <1>1
    <2>2. Max(1 .. k) = k
      <3>1. \A x \in 1 .. k : (\A y \in 1 .. k : x >= y) => x = k
        BY <2>1
      <3>2. \A y \in 1 .. k : k >= y
        OBVIOUS
      <3> QED
        BY <2>1, <3>1, <3>2 DEF Max
    <2>3. (1 .. k) \ {k} = 1 .. k - 1
      BY <2>1
    <2>4. h[1 .. k] = Reduce(h[1 .. k - 1], q[k])
      BY <1>6, <2>1, <2>2, <2>3
    <2> QED
      BY <2>1, <2>4
  <1>9. FoldLeft(Reduce, {}, q) = f[n]
    <2>1. n \in 0 .. n
      BY <1>1
    <2> HIDE DEF n
    <2> QED
      BY <1>1, <1>5, <2>1
  <1> HIDE DEF f
  <1> QED
    BY <1>7, <1>8, <1>9

-----------------------------------------------------------------------------
(* What optimize() keeps of a list *)

Res(q) == FoldLeft(Reduce, {}, q)

\* At most one operation for each object
OneEach(R) == R \in SUBSET Entry /\ IsFiniteSet(R)
              /\ \A e, f \in R : e.obj = f.obj => e = f

\* What one turn of the loop makes of the operations on the same object
Merged(R, e) ==
    LET f == Previous(R, e) IN
    [op |-> Clamp(f.op + e.op), obj |-> e.obj, attrs |-> UniteAttrs(f.attrs, e.attrs)]

LEMMA PreviousEntry ==
    ASSUME NEW R, OneEach(R), NEW e \in Entry
    PROVE  /\ Previous(R, e) \in Entry /\ Previous(R, e).obj = e.obj
           /\ \A f \in R : f.obj = e.obj => Previous(R, e) = f
           /\ Known(R, e) = {} =>
                Previous(R, e).op = REINDEX /\ Previous(R, e).attrs = e.attrs
           /\ Known(R, e) # {} => Previous(R, e) \in R
  <1>1. CASE Known(R, e) = {}
    <2>1. Previous(R, e) = [e EXCEPT !.op = REINDEX]
      BY <1>1 DEF Previous
    <2>2. \A f \in R : f.obj # e.obj
      BY <1>1 DEF Known
    <2> QED
      BY <1>1, <2>1, <2>2 DEF Entry, REINDEX
  <1>2. CASE Known(R, e) # {}
    <2>1. Previous(R, e) = CHOOSE f \in Known(R, e) : TRUE
      BY <1>2 DEF Previous
    <2>2. Previous(R, e) \in Known(R, e)
      BY <1>2, <2>1
    <2> QED
      BY <1>2, <2>2 DEF Known, OneEach
  <1> QED
    BY <1>1, <1>2

LEMMA MergedEntry ==
    ASSUME NEW R, OneEach(R), NEW e \in Entry
    PROVE  /\ Merged(R, e) \in Entry /\ Merged(R, e).obj = e.obj
           /\ Merged(R, e).op = Clamp(Previous(R, e).op + e.op)
           /\ Merged(R, e).attrs = UniteAttrs(Previous(R, e).attrs, e.attrs)
  <1> DEFINE f == Previous(R, e)
  <1>1. f \in Entry
    BY PreviousEntry
  <1> HIDE DEF f
  <1>2. Clamp(f.op + e.op) \in {INDEX, REINDEX, UNINDEX}
    BY <1>1 DEF Entry, Clamp, INDEX, REINDEX, UNINDEX
  <1>3. UniteAttrs(f.attrs, e.attrs) \in AttrArgs
    <2>1. f.attrs \in AttrArgs /\ e.attrs \in AttrArgs
      BY <1>1 DEF Entry
    <2> QED
      BY <2>1 DEF AttrArgs, UniteAttrs
  <1>4. Merged(R, e) = [op |-> Clamp(f.op + e.op), obj |-> e.obj,
                        attrs |-> UniteAttrs(f.attrs, e.attrs)]
    BY DEF Merged, f
  <1>5. e.obj \in Objs
    BY DEF Entry
  <1> QED
    BY <1>2, <1>3, <1>4, <1>5 DEF Entry, f

\* One turn of the loop touches the operations on one object.
LEMMA ReduceIs ==
    ASSUME NEW R, OneEach(R), NEW e \in Entry
    PROVE  /\ OneEach(Reduce(R, e))
           /\ \A m : m \in Reduce(R, e) <=>
                  \/ m \in R /\ m.obj # e.obj
                  \/ ~(Previous(R, e).op = INDEX /\ e.op = UNINDEX) /\ m = Merged(R, e)
  <1> DEFINE gone == Previous(R, e).op = INDEX /\ e.op = UNINDEX
             rest == R \ Known(R, e)
  <1>1. Reduce(R, e) = rest \cup (IF gone THEN {} ELSE {Merged(R, e)})
    BY DEF Reduce, Merged
  <1>2. \A m : m \in rest <=> m \in R /\ m.obj # e.obj
    BY DEF Known
  <1>3. \A m : m \in Reduce(R, e) <=> (m \in R /\ m.obj # e.obj) \/ (~gone /\ m = Merged(R, e))
    <2> HIDE DEF gone, rest
    <2> QED
      BY <1>1, <1>2
  <1>4. Merged(R, e) \in Entry /\ Merged(R, e).obj = e.obj
    BY MergedEntry
  <1>5. IsFiniteSet(rest) /\ rest \in SUBSET Entry
    BY FS_Difference DEF OneEach
  <1>6. IsFiniteSet(Reduce(R, e))
    <2> HIDE DEF gone, rest
    <2>1. CASE gone
      BY <1>1, <1>5, <2>1
    <2>2. CASE ~gone
      <3>1. Reduce(R, e) = rest \cup {Merged(R, e)}
        BY <1>1, <2>2
      <3> QED
        BY <1>5, <3>1, FS_AddElement
    <2> QED
      BY <2>1, <2>2
  <1>7. OneEach(Reduce(R, e))
    <2> HIDE DEF gone
    <2>1. Reduce(R, e) \in SUBSET Entry
      BY <1>3, <1>4 DEF OneEach
    <2>2. \A a, b \in Reduce(R, e) : a.obj = b.obj => a = b
      BY <1>3, <1>4 DEF OneEach
    <2> QED
      BY <1>6, <2>1, <2>2 DEF OneEach
  <1> QED
    BY <1>3, <1>7

\* Every list is reduced to at most one operation for each object.
LEMMA ResOneEach ==
    ASSUME NEW q \in Seq(Entry)
    PROVE  OneEach(Res(q))
  <1> DEFINE n == Len(q)
  <1>1. PICK f : /\ f[0] = {}
                 /\ \A k \in 1 .. n : f[k] = Reduce(f[k - 1], q[k])
                 /\ Res(q) = f[n]
    BY ReduceSteps DEF Res
  <1> DEFINE Good == {k \in 1 .. n : OneEach(f[k])}
  <1>2. n \in Nat /\ \A k \in 1 .. n : q[k] \in Entry
    OBVIOUS
  <1>3. OneEach(f[0])
    BY <1>1, FS_EmptySet DEF OneEach
  <1>4. ASSUME NEW k \in 1 .. n, OneEach(f[k - 1]) PROVE OneEach(f[k])
    <2>1. f[k] = Reduce(f[k - 1], q[k]) /\ q[k] \in Entry
      BY <1>1, <1>2
    <2> QED
      BY <1>4, <2>1, ReduceIs
  <1> HIDE DEF n
  <1>5. n > 0 => 1 \in Good
    BY <1>2, <1>3, <1>4
  <1>6. \A k \in 1 .. n - 1 : k \in Good => k + 1 \in Good
    BY <1>2, <1>4
  <1>7. \A k \in 1 .. n : k \in Good
    <2> HIDE DEF Good
    <2> QED
      BY <1>2, <1>5, <1>6, Upwards
  <1>8. n = 0 \/ n \in 1 .. n
    BY <1>2
  <1>9. n \in 1 .. n => OneEach(f[n])
    BY <1>7
  <1> QED
    BY <1>1, <1>3, <1>8, <1>9

\* The operations of one kind as a sequence: each once (sorted).
LEMMA SequenceOf ==
    ASSUME NEW R \in SUBSET Entry, IsFiniteSet(R)
    PROVE  /\ SetToSeq(R) \in Seq(Entry)
           /\ \A k \in 1 .. Len(SetToSeq(R)) : SetToSeq(R)[k] \in R
           /\ \A j, k \in 1 .. Len(SetToSeq(R)) : SetToSeq(R)[j] = SetToSeq(R)[k] => j = k
           /\ \A e \in R : \E k \in 1 .. Len(SetToSeq(R)) : SetToSeq(R)[k] = e
  <1> DEFINE n == Cardinality(R)
             s == SetToSeq(R)
  <1>1. n \in Nat /\ ExistsBijection(1 .. n, R)
    BY FS_CardinalityType
  <1>2. \E f \in [1 .. n -> R] : IsInjective(f)
    <2>1. PICK f \in Bijection(1 .. n, R) : TRUE
      BY <1>1 DEF ExistsBijection
    <2>2. f \in [1 .. n -> R] /\ IsInjective(f)
      BY <2>1 DEF Bijection, Injection, IsInjective
    <2> QED
      BY <2>2
  <1>3. s \in [1 .. n -> R] /\ IsInjective(s)
    BY <1>2 DEF SetToSeq
  <1> HIDE DEF s
  <1>4. s \in Injection(1 .. n, R)
    BY <1>3 DEF Injection, IsInjective
  <1>5. Cardinality(1 .. n) = n /\ IsFiniteSet(1 .. n)
    BY <1>1, FS_Interval
  <1>6. s \in Surjection(1 .. n, R)
    BY <1>1, <1>4, <1>5, FS_Injection
  <1>7. \A e \in R : \E k \in 1 .. n : s[k] = e
    BY <1>6 DEF Surjection
  <1>8. s \in Seq(Entry) /\ Len(s) = n
    BY <1>1, <1>3
  <1>9. \A j, k \in 1 .. n : s[j] = s[k] => j = k
    BY <1>3 DEF IsInjective
  <1> QED
    BY <1>3, <1>7, <1>8, <1>9 DEF s

\* The operations that are left, as a list: each once, and sorted by operation
Ordered(z, R) ==
    /\ z \in Seq(Entry)
    /\ \A k \in 1 .. Len(z) : z[k] \in R
    /\ \A j, k \in 1 .. Len(z) : j < k => z[j] # z[k] /\ z[j].op <= z[k].op
    /\ \A e \in R : \E k \in 1 .. Len(z) : z[k] = e

LEMMA OneAfterOther ==
    ASSUME NEW A \in SUBSET Entry, NEW B \in SUBSET Entry, NEW y, NEW z,
           Ordered(y, A), Ordered(z, B), \A a \in A, b \in B : a.op < b.op
    PROVE  Ordered(y \o z, A \cup B)
  <1> DEFINE r == y \o z
  <1>1. /\ y \in Seq(Entry) /\ z \in Seq(Entry)
    BY DEF Ordered
  <1>2. /\ r \in Seq(Entry) /\ Len(r) = Len(y) + Len(z)
        /\ Len(y) \in Nat /\ Len(z) \in Nat
        /\ \A k \in 1 .. Len(r) : r[k] = IF k <= Len(y) THEN y[k] ELSE z[k - Len(y)]
    BY <1>1
  <1> HIDE DEF r
  <1>3. ASSUME NEW k \in 1 .. Len(r)
        PROVE  \/ k \in 1 .. Len(y) /\ r[k] = y[k] /\ r[k] \in A
               \/ k > Len(y) /\ k - Len(y) \in 1 .. Len(z) /\ r[k] = z[k - Len(y)] /\ r[k] \in B
    <2>1. CASE k <= Len(y)
      <3>1. k \in 1 .. Len(y) /\ r[k] = y[k]
        BY <1>2, <2>1
      <3> QED
        BY <3>1 DEF Ordered
    <2>2. CASE ~(k <= Len(y))
      <3>1. k > Len(y) /\ k - Len(y) \in 1 .. Len(z) /\ r[k] = z[k - Len(y)]
        BY <1>2, <2>2
      <3> QED
        BY <3>1 DEF Ordered
    <2> QED
      BY <2>1, <2>2
  <1>4. \A k \in 1 .. Len(r) : r[k] \in A \cup B
    BY <1>3
  <1>5. ASSUME NEW j \in 1 .. Len(r), NEW k \in 1 .. Len(r), j < k
        PROVE  r[j] # r[k] /\ r[j].op <= r[k].op
    <2>0. \A e \in Entry : e.op \in Int
      BY DEF Entry, INDEX, REINDEX, UNINDEX
    <2>1. CASE j \in 1 .. Len(y) /\ k \in 1 .. Len(y)
      <3>1. r[j] = y[j] /\ r[k] = y[k]
        BY <1>2, <2>1
      <3> QED
        BY <1>5, <2>1, <3>1 DEF Ordered
    <2>2. CASE j \in 1 .. Len(y) /\ ~(k \in 1 .. Len(y))
      <3>1. r[j] \in A /\ r[k] \in B
        BY <1>2, <1>3, <2>2
      <3>2. r[j].op < r[k].op /\ r[j].op \in Int /\ r[k].op \in Int
        BY <2>0, <3>1
      <3> QED
        BY <3>2
    <2>3. CASE ~(j \in 1 .. Len(y))
      <3>1. ~(j <= Len(y)) /\ ~(k <= Len(y))
        BY <1>2, <1>5, <2>3
      <3> DEFINE i == j - Len(y)
                 l == k - Len(y)
      <3>2. /\ i \in 1 .. Len(z) /\ l \in 1 .. Len(z) /\ i < l
            /\ r[j] = z[i] /\ r[k] = z[l]
        BY <1>2, <1>5, <3>1
      <3> HIDE DEF i, l
      <3>3. \A a, b \in 1 .. Len(z) : a < b => z[a] # z[b] /\ z[a].op <= z[b].op
        BY DEF Ordered
      <3>4. z[i] # z[l] /\ z[i].op <= z[l].op
        BY <3>2, <3>3
      <3> QED
        BY <3>2, <3>4, Zenon
    <2> QED
      BY <2>1, <2>2, <2>3
  <1>6. ASSUME NEW e \in A \cup B PROVE \E k \in 1 .. Len(r) : r[k] = e
    <2>1. CASE e \in A
      <3>1. PICK k \in 1 .. Len(y) : y[k] = e
        BY <2>1 DEF Ordered
      <3>2. k \in 1 .. Len(r) /\ r[k] = e
        BY <1>2, <3>1
      <3> QED
        BY <3>2
    <2>2. CASE e \in B
      <3>1. PICK k \in 1 .. Len(z) : z[k] = e
        BY <2>2 DEF Ordered
      <3>2. /\ Len(y) + k \in 1 .. Len(r) /\ ~(Len(y) + k <= Len(y))
            /\ (Len(y) + k) - Len(y) = k
        BY <1>2, <3>1
      <3>3. r[Len(y) + k] = e
        BY <1>2, <3>1, <3>2
      <3> QED
        BY <3>2, <3>3
    <2> QED
      BY <2>1, <2>2
  <1>7. Ordered(r, A \cup B)
    BY <1>2, <1>4, <1>5, <1>6 DEF Ordered
  <1> QED
    BY <1>7 DEF r

\* "Sort so unindex operations come first" (optimize).
LEMMA OptimizeOrders ==
    ASSUME NEW q \in Seq(Entry)
    PROVE  Ordered(Optimize(q), Res(q))
  <1> DEFINE R == Res(q)
             Of(op) == {e \in R : e.op = op}
  <1>1. R \in SUBSET Entry /\ IsFiniteSet(R)
    BY ResOneEach DEF OneEach
  <1> HIDE DEF R
  <1>2. ASSUME NEW op PROVE Ordered(SetToSeq(Of(op)), Of(op))
    <2>1. Of(op) \in SUBSET Entry /\ IsFiniteSet(Of(op))
      BY <1>1, FS_Subset
    <2> DEFINE z == SetToSeq(Of(op))
    <2>2. /\ z \in Seq(Entry) /\ \A k \in 1 .. Len(z) : z[k] \in Of(op)
          /\ \A j, k \in 1 .. Len(z) : z[j] = z[k] => j = k
          /\ \A e \in Of(op) : \E k \in 1 .. Len(z) : z[k] = e
      <3> HIDE DEF Of
      <3> QED
        BY <2>1, SequenceOf
    <2> HIDE DEF z
    <2>3. ASSUME NEW j \in 1 .. Len(z), NEW k \in 1 .. Len(z), j < k
          PROVE  z[j] # z[k] /\ z[j].op <= z[k].op
      <3>1. z[j].op = op /\ z[k].op = op /\ z[j] \in Entry
        BY <1>1, <2>2
      <3>2. op \in Int
        BY <3>1 DEF Entry, INDEX, REINDEX, UNINDEX
      <3>3. j # k
        BY <2>3, <2>2
      <3> QED
        BY <2>2, <3>1, <3>2, <3>3
    <2> HIDE DEF Of
    <2>4. Ordered(z, Of(op))
      BY <2>2, <2>3 DEF Ordered
    <2> QED
      BY <2>4 DEF z
  <1> DEFINE a == Of(UNINDEX)
             b == Of(REINDEX)
             c == Of(INDEX)
  <1>3. a \in SUBSET Entry /\ b \in SUBSET Entry /\ c \in SUBSET Entry
    BY <1>1
  <1>4. /\ \A x \in a, y \in b : x.op < y.op
        /\ \A x \in a \cup b, y \in c : x.op < y.op
    BY DEF INDEX, REINDEX, UNINDEX
  <1>5. R = (a \cup b) \cup c
    BY <1>1 DEF Entry
  <1>6. Optimize(q) = (SetToSeq(a) \o SetToSeq(b)) \o SetToSeq(c)
    BY DEF Optimize, Res, R
  <1>7. Ordered(SetToSeq(a), a) /\ Ordered(SetToSeq(b), b) /\ Ordered(SetToSeq(c), c)
    BY <1>2
  <1> HIDE DEF a, b, c
  <1>8. Ordered(SetToSeq(a) \o SetToSeq(b), a \cup b)
    BY <1>3, <1>4, <1>7, OneAfterOther
  <1>9. Ordered((SetToSeq(a) \o SetToSeq(b)) \o SetToSeq(c), (a \cup b) \cup c)
    BY <1>3, <1>4, <1>7, <1>8, OneAfterOther
  <1> QED
    BY <1>5, <1>6, <1>9 DEF R

\* In what is left of a list no two entries are of one object.
LEMMA OptimizedDistinct ==
    ASSUME NEW q \in Seq(Entry)
    PROVE  /\ Optimize(q) \in Seq(Entry)
           /\ \A j, k \in 1 .. Len(Optimize(q)) : j < k =>
                Optimize(q)[j].obj # Optimize(q)[k].obj
                /\ Optimize(q)[j].op <= Optimize(q)[k].op
  <1> DEFINE z == Optimize(q)
             R == Res(q)
  <1>1. Ordered(z, R)
    BY OptimizeOrders
  <1>2. OneEach(R)
    BY ResOneEach
  <1> HIDE DEF z, R
  <1>3. ASSUME NEW j \in 1 .. Len(z), NEW k \in 1 .. Len(z), j < k
        PROVE  z[j].obj # z[k].obj /\ z[j].op <= z[k].op
    <2>1. z[j] \in R /\ z[k] \in R /\ z[j] # z[k] /\ z[j].op <= z[k].op
      BY <1>1, <1>3 DEF Ordered
    <2> QED
      BY <1>2, <2>1 DEF OneEach
  <1> QED
    BY <1>1, <1>3 DEF Ordered, z

-----------------------------------------------------------------------------
(* What a list asks for *)

AskedOf(x) == IF x = AllFields THEN Attrs ELSE x

\* None stands for all fields, also together with a list of attributes.
LEMMA AskedUnited ==
    ASSUME NEW x \in AttrArgs, NEW y \in AttrArgs
    PROVE  AskedOf(UniteAttrs(x, y)) = AskedOf(x) \cup AskedOf(y)
  <1>1. CASE AllFields \in {x, y}
    <2>1. AskedOf(UniteAttrs(x, y)) = Attrs
      BY <1>1 DEF UniteAttrs, AskedOf
    <2>2. AskedOf(x) \subseteq Attrs /\ AskedOf(y) \subseteq Attrs
      BY DEF AskedOf, AttrArgs
    <2>3. AskedOf(x) = Attrs \/ AskedOf(y) = Attrs
      BY <1>1 DEF AskedOf
    <2> QED
      BY <2>1, <2>2, <2>3
  <1>2. CASE AllFields \notin {x, y}
    <2>1. x \in SUBSET Attrs /\ y \in SUBSET Attrs
      BY <1>2 DEF AttrArgs
    <2>2. x \cup y # AllFields
      BY <2>1, AllFieldsDiffers
    <2> QED
      BY <1>2, <2>2 DEF UniteAttrs, AskedOf
  <1> QED
    BY <1>1, <1>2

\* Some operation of R on o asks for a.
Asks(R, o, a) == \E e \in R : e.obj = o /\ a \in AskedOf(e.attrs)

LEMMA ReindexMerged ==
    ASSUME NEW R, OneEach(R), \A f \in R : f.op = REINDEX, NEW e \in Entry, e.op = REINDEX
    PROVE  /\ \A f \in Reduce(R, e) : f.op = REINDEX
           /\ \A o, a : Asks(Reduce(R, e), o, a)
                          <=> Asks(R, o, a) \/ (e.obj = o /\ a \in AskedOf(e.attrs))
  <1> DEFINE p == Previous(R, e)
             m == Merged(R, e)
  <1>1. /\ p \in Entry /\ p.obj = e.obj
        /\ \A f \in R : f.obj = e.obj => p = f
        /\ Known(R, e) = {} => p.op = REINDEX /\ p.attrs = e.attrs
        /\ Known(R, e) # {} => p \in R
    BY PreviousEntry
  <1>2. p.op = REINDEX
    BY <1>1
  <1>3. m.obj = e.obj /\ m.op = Clamp(p.op + e.op) /\ m.attrs = UniteAttrs(p.attrs, e.attrs)
    BY MergedEntry
  <1>4. \A f : f \in Reduce(R, e) <=> (f \in R /\ f.obj # e.obj) \/ f = m
    <2>1. ~(p.op = INDEX /\ e.op = UNINDEX)
      BY <1>2 DEF INDEX, REINDEX
    <2> HIDE DEF m
    <2>2. \A f : f \in Reduce(R, e) <=>
                  \/ f \in R /\ f.obj # e.obj
                  \/ ~(p.op = INDEX /\ e.op = UNINDEX) /\ f = m
      BY ReduceIs DEF m
    <2> QED
      BY <2>1, <2>2
  <1> HIDE DEF p, m
  <1>5. m.op = REINDEX
    BY <1>2, <1>3 DEF Clamp, INDEX, REINDEX, UNINDEX
  <1>6. AskedOf(m.attrs) = AskedOf(p.attrs) \cup AskedOf(e.attrs)
    <2>1. p.attrs \in AttrArgs /\ e.attrs \in AttrArgs
      BY <1>1 DEF Entry
    <2> QED
      BY <1>3, <2>1, AskedUnited
  <1>7. ASSUME NEW o, NEW a, Asks(Reduce(R, e), o, a)
        PROVE  Asks(R, o, a) \/ (e.obj = o /\ a \in AskedOf(e.attrs))
    <2>1. PICK f \in Reduce(R, e) : f.obj = o /\ a \in AskedOf(f.attrs)
      BY <1>7 DEF Asks
    <2>2. CASE f \in R
      BY <2>1, <2>2 DEF Asks
    <2>3. CASE f = m
      <3>1. e.obj = o /\ (a \in AskedOf(p.attrs) \/ a \in AskedOf(e.attrs))
        BY <1>3, <1>6, <2>1, <2>3
      <3>2. CASE Known(R, e) = {}
        BY <1>1, <3>1, <3>2
      <3>3. CASE Known(R, e) # {}
        BY <1>1, <3>1, <3>3 DEF Asks
      <3> QED
        BY <3>2, <3>3
    <2> QED
      BY <1>4, <2>1, <2>2, <2>3
  <1>8. ASSUME NEW o, NEW a, Asks(R, o, a) \/ (e.obj = o /\ a \in AskedOf(e.attrs))
        PROVE  Asks(Reduce(R, e), o, a)
    <2>1. m \in Reduce(R, e)
      BY <1>4
    <2>2. CASE e.obj = o /\ a \in AskedOf(e.attrs)
      BY <1>3, <1>6, <2>1, <2>2 DEF Asks
    <2>3. CASE Asks(R, o, a)
      <3>1. PICK f \in R : f.obj = o /\ a \in AskedOf(f.attrs)
        BY <2>3 DEF Asks
      <3>2. CASE f.obj = e.obj
        BY <1>1, <1>3, <1>6, <2>1, <3>1, <3>2 DEF Asks
      <3>3. CASE f.obj # e.obj
        BY <1>4, <3>1, <3>3 DEF Asks
      <3> QED
        BY <3>2, <3>3
    <2> QED
      BY <1>8, <2>2, <2>3
  <1>9. \A f \in Reduce(R, e) : f.op = REINDEX
    BY <1>4, <1>5
  <1> QED
    BY <1>7, <1>8, <1>9

\* A list asks for the same with and without the operations that were united.
LEMMA ReducedAsks ==
    ASSUME NEW q \in Seq(Entry), \A k \in 1 .. Len(q) : q[k].op = REINDEX
    PROVE  /\ \A f \in Res(q) : f.op = REINDEX
           /\ \A o, a : Asks(Res(q), o, a)
                <=> \E k \in 1 .. Len(q) : q[k].obj = o /\ a \in AskedOf(q[k].attrs)
  <1> DEFINE n == Len(q)
             Right(R, k) ==
                /\ OneEach(R) /\ \A f \in R : f.op = REINDEX
                /\ \A o, a : Asks(R, o, a)
                     <=> \E j \in 1 .. k : q[j].obj = o /\ a \in AskedOf(q[j].attrs)
  <1>1. PICK f : /\ f[0] = {}
                 /\ \A k \in 1 .. n : f[k] = Reduce(f[k - 1], q[k])
                 /\ Res(q) = f[n]
    BY ReduceSteps DEF Res
  <1>2. n \in Nat /\ \A k \in 1 .. n : q[k] \in Entry /\ q[k].op = REINDEX
    OBVIOUS
  <1> HIDE DEF n
  <1>3. Right(f[0], 0)
    BY <1>1, FS_EmptySet DEF OneEach, Asks
  <1>4. ASSUME NEW k \in 1 .. n, Right(f[k - 1], k - 1) PROVE Right(f[k], k)
    <2> DEFINE R == f[k - 1]
               e == q[k]
    <2>1. f[k] = Reduce(R, e) /\ e \in Entry /\ e.op = REINDEX
      BY <1>1, <1>2
    <2>2. OneEach(R) /\ \A g \in R : g.op = REINDEX
      BY <1>4
    <2>3. \A o, a : Asks(R, o, a)
            <=> \E j \in 1 .. k - 1 : q[j].obj = o /\ a \in AskedOf(q[j].attrs)
      BY <1>4
    <2>4. \A j : j \in 1 .. k <=> j \in 1 .. k - 1 \/ j = k
      BY <1>2
    <2> HIDE DEF R
    <2>5. OneEach(f[k]) /\ \A g \in f[k] : g.op = REINDEX
      BY <2>1, <2>2, ReduceIs, ReindexMerged
    <2>6. \A o, a : Asks(f[k], o, a) <=> Asks(R, o, a) \/ (e.obj = o /\ a \in AskedOf(e.attrs))
      BY <2>1, <2>2, ReindexMerged
    <2>7. ASSUME NEW o, NEW a
          PROVE  Asks(f[k], o, a)
                   <=> \E j \in 1 .. k : q[j].obj = o /\ a \in AskedOf(q[j].attrs)
      BY <2>3, <2>4, <2>6
    <2> QED
      BY <2>5, <2>7
  <1> DEFINE Good == {k \in 1 .. n : Right(f[k], k)}
  <1> HIDE DEF Right
  <1>5. n > 0 => 1 \in Good
    BY <1>2, <1>3, <1>4
  <1>6. \A k \in 1 .. n - 1 : k \in Good => k + 1 \in Good
    BY <1>2, <1>4
  <1>7. \A k \in 1 .. n : k \in Good
    <2> HIDE DEF Good
    <2> QED
      BY <1>2, <1>5, <1>6, Upwards
  <1>8. Right(f[n], n)
    <2>1. n = 0 \/ n \in 1 .. n
      BY <1>2
    <2>2. n \in 1 .. n => Right(f[n], n)
      BY <1>7
    <2> QED
      BY <1>3, <2>1, <2>2
  <1> QED
    BY <1>1, <1>8 DEF Right, n

OnlyReindex(q) == \A k \in 1 .. Len(q) : q[k].op = REINDEX

\* The list that is processed asks for the same attributes of the same objects.
LEMMA OptimizedAsks ==
    ASSUME NEW q \in Seq(Entry), OnlyReindex(q)
    PROVE  OnlyReindex(Optimize(q)) /\ Pairs(Optimize(q)) = Pairs(q)
  <1> USE DEF OnlyReindex
  <1> DEFINE z == Optimize(q)
  <1>1. /\ z \in Seq(Entry) /\ \A k \in 1 .. Len(z) : z[k] \in Res(q)
        /\ \A e \in Res(q) : \E k \in 1 .. Len(z) : z[k] = e
    BY OptimizeOrders DEF Ordered
  <1> HIDE DEF z
  <1>2. \A o, a : Asks(Res(q), o, a)
           <=> \E k \in 1 .. Len(z) : z[k].obj = o /\ a \in AskedOf(z[k].attrs)
    BY <1>1 DEF Asks
  <1>3. \A o, a : Asks(Res(q), o, a)
           <=> \E k \in 1 .. Len(q) : q[k].obj = o /\ a \in AskedOf(q[k].attrs)
    BY ReducedAsks
  <1> DEFINE In(r, p) == \E k \in 1 .. Len(r) : \E a \in AskedOf(r[k].attrs) :
                            p = <<r[k].obj, a>>
  <1>4. \A r : r \in Seq(Entry) => \A p : p \in Pairs(r) <=> In(r, p)
    <2> SUFFICES ASSUME NEW r \in Seq(Entry), NEW p PROVE p \in Pairs(r) <=> In(r, p)
      OBVIOUS
    <2>1. DOMAIN r = 1 .. Len(r)
      OBVIOUS
    <2> QED
      BY <2>1 DEF Pairs, Named, AskedOf
  <1>5. ASSUME NEW p PROVE In(z, p) <=> In(q, p)
    <2>1. In(z, p) => In(q, p)
      <3> SUFFICES ASSUME In(z, p) PROVE In(q, p)
        OBVIOUS
      <3>1. PICK k \in 1 .. Len(z) : \E a \in AskedOf(z[k].attrs) : p = <<z[k].obj, a>>
        OBVIOUS
      <3>2. PICK a \in AskedOf(z[k].attrs) : p = <<z[k].obj, a>>
        BY <3>1
      <3>3. Asks(Res(q), z[k].obj, a)
        BY <1>2
      <3> QED
        BY <1>3, <3>2, <3>3
    <2>2. In(q, p) => In(z, p)
      <3> SUFFICES ASSUME In(q, p) PROVE In(z, p)
        OBVIOUS
      <3>1. PICK k \in 1 .. Len(q) : \E a \in AskedOf(q[k].attrs) : p = <<q[k].obj, a>>
        OBVIOUS
      <3>2. PICK a \in AskedOf(q[k].attrs) : p = <<q[k].obj, a>>
        BY <3>1
      <3>3. Asks(Res(q), q[k].obj, a)
        BY <1>3
      <3> QED
        BY <1>2, <3>2, <3>3
    <2> QED
      BY <2>1, <2>2
  <1>6. \A p : p \in Pairs(z) <=> p \in Pairs(q)
    <2> HIDE DEF In
    <2>1. z \in Seq(Entry) /\ q \in Seq(Entry)
      BY <1>1
    <2> QED
      BY <2>1, <1>4, <1>5
  <1>7. Pairs(z) = Pairs(q)
    BY <1>6
  <1>8. \A k \in 1 .. Len(z) : z[k].op = REINDEX
    BY <1>1, ReducedAsks
  <1> QED
    BY <1>7, <1>8 DEF z

-----------------------------------------------------------------------------
(* The invariant *)

QueuesInv == TypeOK /\ queue \in [Threads -> Seq(Entry)]

\* What is stale has been queued.
AllNamed == \A t \in Threads : OnlyReindex(queue[t]) /\ stale[t] \subseteq Pairs(queue[t])

StaleInv == taken = {} => indexer = "own" /\ enabled /\ AllNamed

LEMMA NamedPairs ==
    ASSUME NEW e \in Entry
    PROVE  Named(e) \subseteq Objs \X Attrs
  <1>1. e.obj \in Objs /\ e.attrs \in AttrArgs
    BY DEF Entry
  <1> QED
    BY <1>1 DEF Named, AttrArgs

LEMMA LongerPairs ==
    ASSUME NEW q \in Seq(Entry), NEW e \in Entry
    PROVE  /\ Pairs(q) \cup Named(e) \subseteq Pairs(Append(q, e))
           /\ OnlyReindex(q) /\ e.op = REINDEX => OnlyReindex(Append(q, e))
  <1> DEFINE r == Append(q, e)
             n == Len(q)
  <1>1. /\ n \in Nat /\ DOMAIN q = 1 .. n /\ DOMAIN r = 1 .. n + 1 /\ Len(r) = n + 1
        /\ r[n + 1] = e /\ \A k \in 1 .. n : r[k] = q[k]
    OBVIOUS
  <1> HIDE DEF r, n
  <1>2. \A k : k \in 1 .. n + 1 <=> k \in 1 .. n \/ k = n + 1
    BY <1>1
  <1>3. Pairs(q) \cup Named(e) \subseteq Pairs(r)
    BY <1>1, <1>2 DEF Pairs
  <1>4. OnlyReindex(q) /\ e.op = REINDEX => OnlyReindex(r)
    BY <1>1, <1>2 DEF OnlyReindex, n
  <1> QED
    BY <1>3, <1>4 DEF r

LEMMA QueuesInit == Init => QueuesInv
  <1> SUFFICES ASSUME Init PROVE QueuesInv
    OBVIOUS
  <1>1. queue = [t \in Threads |-> << >>] /\ << >> \in Seq(Entry)
    BY DEF Init
  <1>2. queue \in [Threads -> Seq(Entry)]
    BY <1>1
  <1>3. \A t \in Threads : \A k \in DOMAIN queue[t] : queue[t][k] \in Entry
    BY <1>1
  <1>4. /\ stale \in [Threads -> SUBSET (Objs \X Attrs)]
        /\ pc \in [Threads -> {"idle", "checked", "processing"}] /\ processing \in BOOLEAN
        /\ unserved \subseteq Threads /\ taken \in Regimes /\ indexer \in {"own", "other"}
        /\ enabled \in BOOLEAN /\ foreign \subseteq Objs
    BY DEF Init
  <1> QED
    BY <1>2, <1>3, <1>4 DEF QueuesInv, TypeOK

\* A longer queue
LEMMA AppendTyping ==
    ASSUME QueuesInv, NEW t \in Threads, NEW op \in {INDEX, REINDEX, UNINDEX},
           NEW o \in Objs, NEW as \in AttrArgs, NEW e,
           e = [op |-> op, obj |-> o, attrs |-> as], Append1(t, op, o, as)
    PROVE  /\ queue' \in [Threads -> Seq(Entry)] /\ e \in Entry
           /\ queue'[t] = Append(queue[t], e)
           /\ \A u \in Threads : u # t => queue'[u] = queue[u]
           /\ UNCHANGED <<pc, processing, unserved, taken, indexer, enabled, foreign>>
  <1>1. e \in Entry
    BY DEF Entry
  <1>2. queue' = [queue EXCEPT ![t] = Append(queue[t], e)]
    BY DEF Append1
  <1>3. queue \in [Threads -> Seq(Entry)] /\ Append(queue[t], e) \in Seq(Entry)
    BY <1>1 DEF QueuesInv
  <1>4. /\ queue' \in [Threads -> Seq(Entry)] /\ queue'[t] = Append(queue[t], e)
        /\ \A u \in Threads : u # t => queue'[u] = queue[u]
    BY <1>2, <1>3
  <1>5. UNCHANGED <<pc, processing, unserved, taken, indexer, enabled, foreign>>
    BY DEF Append1, guard, utility
  <1> QED
    BY <1>1, <1>4, <1>5

\* A modification
LEMMA ReindexIs ==
    ASSUME QueuesInv, NEW t \in Threads, NEW o \in Objs, NEW as \in AttrArgs,
           Reindex(t, o, as)
    PROVE  \E e \in Entry :
             /\ e.op = REINDEX /\ queue' \in [Threads -> Seq(Entry)]
             /\ queue'[t] = Append(queue[t], e)
             /\ \A u \in Threads : u # t => queue'[u] = queue[u]
             /\ stale' = [stale EXCEPT ![t] = stale[t] \cup Named(e)]
             /\ UNCHANGED <<pc, processing, unserved, taken, indexer, enabled, foreign>>
  <1> DEFINE e == [op |-> REINDEX, obj |-> o, attrs |-> as]
  <1>1. Append1(t, REINDEX, o, as) /\ stale' = [stale EXCEPT ![t] = stale[t] \cup Named(e)]
    BY DEF Reindex
  <1>2. e.op = REINDEX /\ e = [op |-> REINDEX, obj |-> o, attrs |-> as]
    OBVIOUS
  <1> HIDE DEF e
  <1>3. /\ queue' \in [Threads -> Seq(Entry)] /\ e \in Entry
        /\ queue'[t] = Append(queue[t], e)
        /\ \A u \in Threads : u # t => queue'[u] = queue[u]
        /\ UNCHANGED <<pc, processing, unserved, taken, indexer, enabled, foreign>>
    BY <1>1, <1>2, AppendTyping
  <1> QED
    BY <1>1, <1>2, <1>3

\* What is in a queue is well formed however the queue came about.
LEMMA QueueEntries ==
    ASSUME NEW Q \in [Threads -> Seq(Entry)]
    PROVE  \A t \in Threads : \A k \in DOMAIN Q[t] : Q[t][k] \in Entry
  <1> SUFFICES ASSUME NEW t \in Threads PROVE \A k \in DOMAIN Q[t] : Q[t][k] \in Entry
    OBVIOUS
  <1>1. Q[t] \in Seq(Entry)
    OBVIOUS
  <1> QED
    BY <1>1

\* What process() makes of the queue and of the index: the entries of the optimized
\* list z were applied, all of them or the first n, and then z stays queued.
Outcome(t, z) ==
    \/ Serve(t, z, Len(z)) /\ queue' = [queue EXCEPT ![t] = << >>]
    \/ (\E n : Serve(t, z, n)) /\ queue' = [queue EXCEPT ![t] = z]

LEMMA Outcomes ==
    ASSUME NEW t, Process(t)
    PROVE  Outcome(t, Optimize(queue[t]))
  <1> DEFINE z == Optimize(queue[t])
  <1>1. \/ Serve(t, z, Len(z)) /\ queue' = [queue EXCEPT ![t] = << >>]
        \/ /\ \E n \in DoneWhenRaised(z) : Serve(t, z, n)
           /\ queue' = [queue EXCEPT ![t] = z]
    BY DEF Process
  <1> HIDE DEF z
  <1> QED
    BY <1>1 DEF Outcome, z

LEMMA ServeTyping ==
    ASSUME QueuesInv, NEW t \in Threads, NEW z \in Seq(Entry), NEW n, Serve(t, z, n)
    PROVE  /\ stale' \in [Threads -> SUBSET (Objs \X Attrs)] /\ foreign' \subseteq Objs
           /\ stale'[t] \subseteq stale[t]
           /\ \A u \in Threads : u # t => stale'[u] = stale[u]
  <1>1. stale \in [Threads -> SUBSET (Objs \X Attrs)] /\ foreign \subseteq Objs
    BY DEF QueuesInv, TypeOK
  <1>2. stale' = stale \/ stale' = [stale EXCEPT ![t] = stale[t] \ Refreshed(z, n)]
    BY DEF Serve
  <1>3. \A k \in DOMAIN z : z[k].obj \in Objs
    <2>1. \A k \in DOMAIN z : z[k] \in Entry
      OBVIOUS
    <2>2. \A e \in Entry : e.obj \in Objs
      BY DEF Entry
    <2> QED
      BY <2>1, <2>2
  <1>4. foreign' \subseteq Objs
    BY <1>1, <1>3 DEF Serve, Acting
  <1> QED
    BY <1>1, <1>2, <1>4

LEMMA ProcessTyping ==
    ASSUME QueuesInv, NEW t \in Threads, Process(t)
    PROVE  /\ queue' \in [Threads -> Seq(Entry)]
           /\ stale' \in [Threads -> SUBSET (Objs \X Attrs)]
           /\ foreign' \subseteq Objs
  <1> DEFINE z == Optimize(queue[t])
  <1>1. queue[t] \in Seq(Entry) /\ queue \in [Threads -> Seq(Entry)]
    BY DEF QueuesInv
  <1>2. z \in Seq(Entry) /\ Outcome(t, z)
    BY <1>1, OptimizedDistinct, Outcomes
  <1> HIDE DEF z
  <1>3. PICK n : Serve(t, z, n)
    BY <1>2 DEF Outcome
  <1>4. << >> \in Seq(Entry)
    OBVIOUS
  <1>5. queue' \in [Threads -> Seq(Entry)]
    BY <1>1, <1>2, <1>4 DEF Outcome
  <1> QED
    BY <1>2, <1>3, <1>5, ServeTyping

\* Every step keeps the queues well formed.
LEMMA QueuesStep ==
    ASSUME QueuesInv, [Next]_vars PROVE QueuesInv'
  <1> USE DEF QueuesInv, TypeOK, guard, utility
  <1>1. queue' \in [Threads -> Seq(Entry)] =>
            \A t \in Threads : \A k \in DOMAIN queue'[t] : queue'[t][k] \in Entry
    BY QueueEntries
  <1>2. CASE UNCHANGED vars
    BY <1>2 DEF vars
  <1>3. CASE OpenOtherDB \/ EnableAutoReindex
    BY <1>3 DEF OpenOtherDB, EnableAutoReindex
  <1>4. ASSUME NEW t \in Threads,
               CheckProcessing(t) \/ SkipProcessing(t) \/ EnterProcessing(t)
        PROVE  QueuesInv'
    BY <1>4 DEF CheckProcessing, SkipProcessing, EnterProcessing
  <1>5. ASSUME NEW t \in Threads, BeforeCommit(t) PROVE QueuesInv'
    <2>1. Process(t) /\ UNCHANGED <<pc, processing, unserved, taken, indexer, enabled>>
      BY <1>5 DEF BeforeCommit
    <2>2. /\ queue' \in [Threads -> Seq(Entry)] /\ foreign' \subseteq Objs
          /\ stale' \in [Threads -> SUBSET (Objs \X Attrs)]
      BY <2>1, ProcessTyping
    <2> QED
      BY <1>1, <2>1, <2>2
  <1>6. ASSUME NEW t \in Threads, LeaveProcessing(t) PROVE QueuesInv'
    <2>1. /\ Process(t) /\ UNCHANGED <<taken, indexer, enabled>>
          /\ processing' = FALSE /\ pc' = [pc EXCEPT ![t] = "idle"]
          /\ unserved' = IF processing THEN unserved ELSE unserved \cup {t}
      BY <1>6 DEF LeaveProcessing
    <2>2. /\ queue' \in [Threads -> Seq(Entry)] /\ foreign' \subseteq Objs
          /\ stale' \in [Threads -> SUBSET (Objs \X Attrs)]
      BY <2>1, ProcessTyping
    <2> QED
      BY <1>1, <2>1, <2>2
  <1>7. ASSUME NEW t \in Threads, NEW o \in Objs, NEW op \in {INDEX, UNINDEX},
               IndexOrUnindex(t, op, o)
        PROVE  QueuesInv'
    <2>1. Append1(t, op, o, AllFields) /\ stale' = stale
      BY <1>7 DEF IndexOrUnindex
    <2>2. AllFields \in AttrArgs /\ op \in {INDEX, REINDEX, UNINDEX}
      BY DEF AttrArgs
    <2>3. /\ queue' \in [Threads -> Seq(Entry)]
          /\ UNCHANGED <<pc, processing, unserved, taken, indexer, enabled, foreign>>
      BY <2>1, <2>2, AppendTyping
    <2> QED
      BY <1>1, <2>1, <2>3
  <1>8. ASSUME NEW t \in Threads, NEW o \in Objs, NEW as \in AttrArgs, Reindex(t, o, as)
        PROVE  QueuesInv'
    <2>1. PICK e \in Entry :
            /\ queue' \in [Threads -> Seq(Entry)]
            /\ stale' = [stale EXCEPT ![t] = stale[t] \cup Named(e)]
            /\ UNCHANGED <<pc, processing, unserved, taken, indexer, enabled, foreign>>
      BY <1>8, ReindexIs
    <2>2. stale' \in [Threads -> SUBSET (Objs \X Attrs)]
      BY <2>1, NamedPairs
    <2> QED
      BY <1>1, <2>1, <2>2
  <1>9. Modified \subseteq AttrArgs
    BY MixedArgsType DEF Modified
  <1> QED
    BY <1>2, <1>3, <1>4, <1>5, <1>6, <1>7, <1>8, <1>9 DEF Next

-----------------------------------------------------------------------------
(* What the index has not been given yet *)

LEMMA StaleInit == Init => StaleInv
  <1> SUFFICES ASSUME Init PROVE indexer = "own" /\ enabled /\ AllNamed
    BY DEF StaleInv
  <1>1. indexer = "own" /\ enabled /\ \A t \in Threads : stale[t] = {} /\ queue[t] = << >>
    BY DEF Init
  <1>2. OnlyReindex(<< >>)
    BY DEF OnlyReindex
  <1> QED
    BY <1>1, <1>2 DEF AllNamed

\* A modification queues what it makes stale.
LEMMA StaleReindex ==
    ASSUME QueuesInv, AllNamed,
           NEW t \in Threads, NEW o \in Objs, NEW as \in AttrArgs, Reindex(t, o, as)
    PROVE  AllNamed'
  <1>1. PICK e \in Entry :
            /\ e.op = REINDEX /\ queue'[t] = Append(queue[t], e)
            /\ \A u \in Threads : u # t => queue'[u] = queue[u]
            /\ stale' = [stale EXCEPT ![t] = stale[t] \cup Named(e)]
    BY ReindexIs
  <1>2. /\ stale'[t] = stale[t] \cup Named(e)
        /\ \A u \in Threads : u # t => stale'[u] = stale[u]
    BY <1>1 DEF QueuesInv, TypeOK
  <1>3. queue[t] \in Seq(Entry)
    BY DEF QueuesInv
  <1>4. OnlyReindex(queue'[t]) /\ Pairs(queue[t]) \cup Named(e) \subseteq Pairs(queue'[t])
    BY <1>1, <1>3, LongerPairs DEF AllNamed
  <1>5. stale'[t] \subseteq Pairs(queue'[t])
    BY <1>2, <1>4 DEF AllNamed
  <1> QED
    BY <1>1, <1>2, <1>4, <1>5 DEF AllNamed

\* process() refreshes all that is queued, or leaves it queued.
LEMMA StaleProcess ==
    ASSUME QueuesInv, AllNamed, indexer = "own", enabled, NEW t \in Threads, Process(t)
    PROVE  AllNamed'
  <1> DEFINE q == queue[t]
             z == Optimize(q)
  <1>1. q \in Seq(Entry) /\ OnlyReindex(q) /\ stale[t] \subseteq Pairs(q)
    BY DEF QueuesInv, AllNamed
  <1>2. z \in Seq(Entry) /\ OnlyReindex(z) /\ stale[t] \subseteq Pairs(z)
    BY <1>1, OptimizedDistinct, OptimizedAsks
  <1>3. Outcome(t, z) /\ queue \in [Threads -> Seq(Entry)]
    BY Outcomes DEF QueuesInv
  <1> HIDE DEF z, q
  <1>4. PICK n : Serve(t, z, n)
    BY <1>3 DEF Outcome
  <1>5. /\ stale'[t] \subseteq stale[t]
        /\ \A u \in Threads : u # t => stale'[u] = stale[u] /\ queue'[u] = queue[u]
    BY <1>2, <1>3, <1>4, ServeTyping DEF Outcome
  <1>6. OnlyReindex(queue'[t]) /\ stale'[t] \subseteq Pairs(queue'[t])
    <2>1. CASE Serve(t, z, Len(z)) /\ queue' = [queue EXCEPT ![t] = << >>]
      <3>1. queue'[t] = << >> /\ OnlyReindex(<< >>)
        BY <1>3, <2>1 DEF OnlyReindex
      <3>2. Refreshed(z, Len(z)) = Pairs(z)
        <4>1. DOMAIN z = 1 .. Len(z) /\ \A k \in 1 .. Len(z) : k <= Len(z)
          BY <1>2
        <4>2. {k \in Acting(z) : k <= Len(z)} = DOMAIN z
          BY <1>2, <4>1 DEF Acting, OnlyReindex
        <4> QED
          BY <4>2 DEF Refreshed, Pairs
      <3>3. stale'[t] = stale[t] \ Pairs(z)
        <4>1. stale \in [Threads -> SUBSET (Objs \X Attrs)]
          BY DEF QueuesInv, TypeOK
        <4>2. stale' = [stale EXCEPT ![t] = stale[t] \ Refreshed(z, Len(z))]
          BY <2>1 DEF Serve
        <4> QED
          BY <3>2, <4>1, <4>2
      <3> QED
        BY <1>2, <3>1, <3>3
    <2>2. CASE queue' = [queue EXCEPT ![t] = z]
      BY <1>2, <1>3, <1>5, <2>2
    <2> QED
      BY <1>3, <2>1, <2>2 DEF Outcome
  <1> QED
    BY <1>5, <1>6 DEF AllNamed

LEMMA StaleStep ==
    ASSUME QueuesInv, StaleInv, [Next]_vars
    PROVE  StaleInv'
  <1> SUFFICES ASSUME taken' = {} PROVE (indexer = "own" /\ enabled /\ AllNamed)'
    BY DEF StaleInv
  <1>u. UNCHANGED utility \/ OpenOtherDB \/ EnableAutoReindex
    <2>1. CASE UNCHANGED vars
      BY <2>1 DEF vars
    <2>2. ASSUME NEW t \in Threads, BeforeCommit(t) \/ LeaveProcessing(t)
          PROVE  UNCHANGED utility
      BY <2>2 DEF BeforeCommit, LeaveProcessing
    <2>3. ASSUME NEW t \in Threads,
                 CheckProcessing(t) \/ SkipProcessing(t) \/ EnterProcessing(t)
          PROVE  UNCHANGED utility
      BY <2>3 DEF CheckProcessing, SkipProcessing, EnterProcessing
    <2>4. ASSUME NEW t \in Threads, NEW o \in Objs, NEW op, IndexOrUnindex(t, op, o)
          PROVE  UNCHANGED utility
      BY <2>4 DEF IndexOrUnindex, Append1
    <2>5. ASSUME NEW t \in Threads, NEW o \in Objs, NEW as, Reindex(t, o, as)
          PROVE  UNCHANGED utility
      BY <2>5 DEF Reindex, Append1
    <2> QED
      BY <2>1, <2>2, <2>3, <2>4, <2>5 DEF Next
  <1>1. taken = {}
    BY <1>u DEF utility, OpenOtherDB, EnableAutoReindex
  <1>2. indexer = "own" /\ enabled /\ AllNamed
    BY <1>1 DEF StaleInv
  <1>3. indexer' = indexer /\ enabled' = enabled
    BY <1>u, <1>1 DEF utility, OpenOtherDB, EnableAutoReindex
  <1>4. ASSUME stale' = stale, queue' = queue PROVE AllNamed'
    BY <1>2, <1>4 DEF AllNamed
  <1>5. ASSUME UNCHANGED vars PROVE AllNamed'
    BY <1>4, <1>5 DEF vars
  <1>6. ASSUME NEW t \in Threads,
               CheckProcessing(t) \/ SkipProcessing(t) \/ EnterProcessing(t)
        PROVE  AllNamed'
    BY <1>4, <1>6 DEF CheckProcessing, SkipProcessing, EnterProcessing
  <1>7. ASSUME NEW t \in Threads, BeforeCommit(t) \/ LeaveProcessing(t) PROVE AllNamed'
    <2>1. Process(t)
      BY <1>7 DEF BeforeCommit, LeaveProcessing
    <2> QED
      BY <1>2, <2>1, StaleProcess
  <1>8. ASSUME NEW t \in Threads, NEW o \in Objs, NEW as \in AttrArgs, Reindex(t, o, as)
        PROVE  AllNamed'
    BY <1>2, <1>8, StaleReindex
  <1>9. ASSUME NEW t \in Threads, NEW o \in Objs, NEW op, IndexOrUnindex(t, op, o)
        PROVE  FALSE
    BY <1>1, <1>9 DEF IndexOrUnindex
  <1>10. ASSUME OpenOtherDB \/ EnableAutoReindex PROVE FALSE
    BY <1>1, <1>10 DEF OpenOtherDB, EnableAutoReindex
  <1>11. Modified \subseteq AttrArgs
    BY MixedArgsType DEF Modified
  <1>12. AllNamed'
    BY <1>5, <1>6, <1>7, <1>8, <1>9, <1>10, <1>11 DEF Next
  <1> QED
    BY <1>2, <1>3, <1>12

-----------------------------------------------------------------------------
(* The theorems *)

\* Queues are well formed, and what is applied of one has at most one operation per
\* object, all UNINDEX operations before the others: optimize() reduces and sorts
\* any list so.
THEOREM QueuesAreOptimized == Spec => []OptimizedShape
  <1>1. Spec => []QueuesInv
    <2>1. Init => QueuesInv
      BY QueuesInit
    <2>2. QueuesInv /\ [Next]_vars => QueuesInv'
      BY QueuesStep
    <2> QED
      BY <2>1, <2>2, PTL DEF Spec
  <1>2. QueuesInv => OptimizedShape
    <2> SUFFICES ASSUME QueuesInv, NEW t \in Threads
                 PROVE  TypeOK /\ \A j, k \in DOMAIN Optimize(queue[t]) : j < k =>
                            /\ Optimize(queue[t])[j].obj # Optimize(queue[t])[k].obj
                            /\ Optimize(queue[t])[j].op <= Optimize(queue[t])[k].op
      BY DEF OptimizedShape, QueuesInv
    <2> DEFINE z == Optimize(queue[t])
    <2>1. queue[t] \in Seq(Entry)
      BY DEF QueuesInv
    <2>2. z \in Seq(Entry) /\ \A j, k \in 1 .. Len(z) : j < k =>
              z[j].obj # z[k].obj /\ z[j].op <= z[k].op
      BY <2>1, OptimizedDistinct
    <2> HIDE DEF z
    <2>3. \A j, k \in DOMAIN z : j < k => z[j].obj # z[k].obj /\ z[j].op <= z[k].op
      BY <2>2
    <2> QED
      BY <2>3 DEF z, QueuesInv
  <1> QED
    BY <1>1, <1>2, PTL

\* For the REINDEX operations that zerodb makes, the optimized list asks for the same
\* attributes of the same objects as the list it came from: module AutoReindex may
\* keep the queue as a set of pairs.
THEOREM QueueIsItsPairs == Spec => []SamePairs
  <1>1. Spec => []QueuesInv
    <2>1. Init => QueuesInv
      BY QueuesInit
    <2>2. QueuesInv /\ [Next]_vars => QueuesInv'
      BY QueuesStep
    <2> QED
      BY <2>1, <2>2, PTL DEF Spec
  <1>2. QueuesInv => SamePairs
    <2> SUFFICES ASSUME QueuesInv, NEW t \in Threads,
                        \A k \in DOMAIN queue[t] : queue[t][k].op = REINDEX
                 PROVE  Pairs(Optimize(queue[t])) = Pairs(queue[t])
      BY DEF SamePairs
    <2>1. queue[t] \in Seq(Entry)
      BY DEF QueuesInv
    <2>2. OnlyReindex(queue[t])
      BY <2>1 DEF OnlyReindex
    <2> QED
      BY <2>1, <2>2, OptimizedAsks
  <1> QED
    BY <1>1, <1>2, PTL

\* With one DB, automatic reindexing on and nothing but modifications queued, a thread
\* whose queue is empty has an index with the present values of its objects, for any
\* modifications in any order, also when the processor raised before.
THEOREM ProcessedIndexIsFresh == Spec => []ProcessedIsFresh
  <1>1. Init => QueuesInv /\ StaleInv
    BY QueuesInit, StaleInit
  <1>2. QueuesInv /\ StaleInv /\ [Next]_vars => (QueuesInv /\ StaleInv)'
    BY QueuesStep, StaleStep
  <1>3. StaleInv => ProcessedIsFresh
    <2> SUFFICES ASSUME StaleInv, taken = {}, NEW t \in Threads, queue[t] = << >>
                 PROVE  stale[t] = {}
      BY DEF ProcessedIsFresh
    <2>1. stale[t] \subseteq Pairs(<< >>)
      BY DEF StaleInv, AllNamed
    <2> QED
      BY <2>1 DEF Pairs
  <1> QED
    BY <1>1, <1>2, <1>3, PTL DEF Spec

-----------------------------------------------------------------------------
(* The pool of connections *)

\* The connections of a pool
Elements(q) == {q[k] : k \in DOMAIN q}
InPool == Elements(available)

Distinct(q) == \A j, k \in DOMAIN q : q[j] = q[k] => j = k

\* What a thread's thread-local, its vigil and its use of a root hold on to
Held(t) == {local[t], watched[t], got[t]} \ {Nil}

\* Only live threads run, and only the child re-initializes itself.
PlaceInv ==
    /\ \A t \in Threads : initdb[t] # "idle" => thread[t] = "live" /\ process = "child"
    /\ \A t \in Threads : got[t] # Nil => thread[t] = "live"
    /\ ~pid => process = "child"

\* Where no thread disconnects, a connection is held by one thread or in the
\* pool, and only connections that were created are.
OwnInv ==
    "disconnect" \notin allowed =>
        /\ \A t \in Threads : \A c \in Held(t) : made[c] # Nil /\ c \notin InPool
        /\ \A t, u \in Threads : t # u => Held(t) \cap Held(u) = {}

\* The pool is a stack of connections of its own, only connections that were
\* created are open, and where no thread disconnects each is in the pool once and
\* only while it is closed.
StackInv ==
    /\ available \in Seq(Conns)
    /\ \A c \in InPool : made[c] = CurrentPool
    /\ \A c \in opened : made[c] # Nil
    /\ "disconnect" \notin allowed => Distinct(available) /\ InPool \cap opened = {}

PoolInv == PoolTypeOK /\ StackInv /\ PlaceInv /\ OwnInv

-----------------------------------------------------------------------------
(* The stack. *)

\* pool.pop() takes the last connection, which the rest has only if it was there
\* twice.
LEMMA Popped ==
    ASSUME NEW q \in Seq(Conns), q # <<>>
    PROVE  LET r == SubSeq(q, 1, Len(q) - 1) IN
           /\ r \in Seq(Conns) /\ Elements(r) \subseteq Elements(q)
           /\ q[Len(q)] \in Elements(q)
           /\ Distinct(q) => Distinct(r) /\ Elements(r) \subseteq Elements(q) \ {q[Len(q)]}
<1> DEFINE n == Len(q) - 1
           r == SubSeq(q, 1, n)
<1>1. n \in Nat /\ Len(q) = n + 1 /\ DOMAIN q = 1 .. n + 1
  BY EmptySeq, LenProperties
<1>2. \A k \in 1 .. n + 1 : q[k] \in Conns
  BY <1>1, ElementOfSeq
<1>3. r \in Seq(Conns) /\ Len(r) = n /\ \A k \in 1 .. n : r[k] = q[k]
  BY <1>1, <1>2, SubSeqProperties
<1>4. DOMAIN r = 1 .. n
  BY <1>3, LenProperties
<1> HIDE DEF r, n
<1>5. Elements(r) \subseteq Elements(q)
  BY <1>1, <1>3, <1>4 DEF Elements
<1>6. Distinct(q) => Distinct(r) /\ Elements(r) \subseteq Elements(q) \ {q[n + 1]}
  <2> SUFFICES ASSUME Distinct(q)
               PROVE  Distinct(r) /\ q[n + 1] \notin Elements(r)
    BY <1>5
  <2>1. \A k \in 1 .. n : k \in 1 .. n + 1 /\ n + 1 \in 1 .. n + 1 /\ k # n + 1
    BY <1>1
  <2>2. \A k \in 1 .. n : q[k] # q[n + 1]
    BY <1>1, <2>1 DEF Distinct
  <2> QED
    BY <1>1, <1>3, <1>4, <2>1, <2>2 DEF Distinct, Elements
<1>7. q[n + 1] \in Elements(q)
  BY <1>1 DEF Elements
<1> QED
  BY <1>1, <1>3, <1>5, <1>6, <1>7 DEF r, n

\* repush
LEMMA Appended ==
    ASSUME NEW q \in Seq(Conns), NEW c \in Conns
    PROVE  /\ Append(q, c) \in Seq(Conns)
           /\ Elements(Append(q, c)) = Elements(q) \cup {c}
           /\ Distinct(q) /\ c \notin Elements(q) => Distinct(Append(q, c))
<1> DEFINE r == Append(q, c)
           n == Len(q)
<1>1. n \in Nat /\ DOMAIN q = 1 .. n
  BY LenProperties
<1>2. /\ r \in Seq(Conns) /\ Len(r) = n + 1
      /\ \A k \in 1 .. n : r[k] = q[k]
      /\ r[n + 1] = c
  BY AppendProperties
<1>3. DOMAIN r = 1 .. n + 1 /\ 1 .. n + 1 = (1 .. n) \cup {n + 1}
  BY <1>1, <1>2, LenProperties
<1> HIDE DEF r, n
<1>4. Distinct(q) /\ c \notin Elements(q) => Distinct(r)
  BY <1>1, <1>2, <1>3 DEF Distinct, Elements
<1>5. Elements(r) = Elements(q) \cup {c}
  BY <1>1, <1>2, <1>3 DEF Elements
<1> QED
  BY <1>2, <1>4, <1>5 DEF r

\* A connection that is opened comes from the pool or is new.
LEMMA Opened ==
    ASSUME PoolTypeOK, StackInv, NEW c \in Conns, PoolOpen(c)
    PROVE  /\ available' \in Seq(Conns) /\ InPool' \subseteq InPool
           /\ "disconnect" \notin allowed =>
                Distinct(available') /\ InPool' \subseteq InPool \ {c}
           /\ made' \in [Conns -> {"parent", "child", Nil}]
           /\ \A d \in InPool' : made'[d] = CurrentPool
           /\ c \in InPool \/ made[c] = Nil
           /\ made'[c] # Nil /\ \A d \in Conns \ {c} : made'[d] = made[d]
<1>0. CurrentPool \in {"parent", "child"} /\ CurrentPool # Nil
  BY NilIsNoConn DEF CurrentPool
<1>1. CASE /\ available # <<>> /\ c = available[Len(available)]
           /\ available' = SubSeq(available, 1, Len(available) - 1)
           /\ UNCHANGED made
  <2>1. /\ available' \in Seq(Conns) /\ InPool' \subseteq InPool /\ c \in InPool
        /\ Distinct(available) => Distinct(available') /\ InPool' \subseteq InPool \ {c}
    BY <1>1, Popped DEF StackInv, InPool
  <2>2. made[c] = CurrentPool /\ \A d \in InPool' : made[d] = CurrentPool
    BY <2>1 DEF StackInv
  <2> QED
    BY <1>0, <1>1, <2>1, <2>2 DEF StackInv, PoolTypeOK
<1>2. CASE /\ available = <<>> /\ IsNew(c)
           /\ made' = [made EXCEPT ![c] = CurrentPool]
           /\ UNCHANGED available
  <2>1. Elements(<<>>) = {}
    BY DEF Elements
  <2>2. InPool' = {} /\ InPool = {}
    BY <1>2, <2>1 DEF InPool
  <2>3. /\ made' \in [Conns -> {"parent", "child", Nil}] /\ made[c] = Nil
        /\ made'[c] = CurrentPool /\ \A d \in Conns \ {c} : made'[d] = made[d]
    BY <1>0, <1>2 DEF PoolTypeOK, IsNew
  <2> QED
    BY <1>0, <1>2, <2>2, <2>3 DEF StackInv
<1> QED
  BY <1>1, <1>2 DEF PoolOpen

\* The current pool changes only at the end of _init_db.
LEMMA SamePool ==
    ASSUME UNCHANGED <<process, pid, initdb>>
    PROVE  CurrentPool' = CurrentPool
BY DEF CurrentPool

\* A close
LEMMA Closed ==
    ASSUME StackInv, NEW c \in Conns, made[c] # Nil, GiveBack(c),
           "disconnect" \notin allowed => c \notin InPool,
           UNCHANGED <<made, allowed>>, CurrentPool' = CurrentPool
    PROVE  StackInv' /\ InPool' \subseteq InPool \cup {c}
<1>1. opened' = opened \ {c} /\ available \in Seq(Conns)
  BY DEF GiveBack, StackInv
<1>2. CASE made[c] = CurrentPool
  <2>1. available' = Append(available, c)
    BY <1>2 DEF GiveBack
  <2>2. /\ available' \in Seq(Conns) /\ InPool' = InPool \cup {c}
        /\ Distinct(available) /\ c \notin InPool => Distinct(available')
    BY <1>1, <2>1, Appended DEF InPool
  <2>3. \A d \in InPool' : made'[d] = CurrentPool'
    BY <1>2, <2>2 DEF StackInv
  <2>4. "disconnect" \notin allowed => Distinct(available)' /\ InPool' \cap opened' = {}
    BY <1>1, <2>2 DEF StackInv, Distinct
  <2> QED
    BY <1>1, <2>2, <2>3, <2>4 DEF StackInv
<1>3. CASE made[c] # CurrentPool
  <2>1. available' = available
    BY <1>3 DEF GiveBack
  <2>2. InPool' = InPool /\ (Distinct(available)' <=> Distinct(available))
    BY <2>1 DEF InPool, Elements, Distinct
  <2> QED
    BY <1>1, <2>1, <2>2 DEF StackInv
<1> QED
  BY <1>2, <1>3

-----------------------------------------------------------------------------
(* Who holds what. *)

\* Threads that hold no more than before
LEMMA ShrinkKeeps ==
    ASSUME OwnInv, UNCHANGED <<available, made, allowed>>,
           \A t \in Threads : Held(t)' \subseteq Held(t)
    PROVE  OwnInv'
<1>1. InPool' = InPool
  BY DEF InPool, Elements
<1> QED
  BY <1>1 DEF OwnInv

\* A thread that comes to hold a connection from the pool, or a new one
LEMMA ClaimKeeps ==
    ASSUME OwnInv, NEW t \in Threads, NEW c \in Conns, UNCHANGED allowed,
           "disconnect" \notin allowed => InPool' \subseteq InPool \ {c},
           Held(t)' \subseteq Held(t) \cup {c},
           \A u \in Threads \ {t} : Held(u)' \subseteq Held(u),
           c \in InPool \/ made[c] = Nil,
           made'[c] # Nil, \A d \in Conns \ {c} : made'[d] = made[d],
           \A u \in Threads : Held(u) \subseteq Conns,
           InPool \subseteq Conns
    PROVE  OwnInv'
<1> SUFFICES ASSUME "disconnect" \notin allowed
             PROVE  /\ \A u \in Threads : \A d \in Held(u)' : made'[d] # Nil /\ d \notin InPool'
                    /\ \A u, v \in Threads : u # v => Held(u)' \cap Held(v)' = {}
  BY DEF OwnInv
<1>1. \A u \in Threads : c \notin Held(u)
  BY DEF OwnInv
<1>2. \A d \in Conns : made[d] # Nil => made'[d] # Nil
  OBVIOUS
<1>4. \A u \in Threads : \A d \in Held(u)' : made'[d] # Nil /\ d \notin InPool'
  BY <1>2 DEF OwnInv
<1>5. ASSUME NEW u \in Threads, NEW v \in Threads, u # v
      PROVE  Held(u)' \cap Held(v)' = {}
  BY <1>1, <1>5 DEF OwnInv
<1> QED
  BY <1>4, <1>5

\* _conn_open and the end of _init_db: what the thread had it no longer uses.
LEMMA OpenKeeps ==
    ASSUME PoolInv, NEW t \in Threads, NEW c \in Conns, thread[t] = "live",
           opened' = opened \cup {c}, local' = [local EXCEPT ![t] = c], Watch(t, c),
           got' = [got EXCEPT ![t] = c],
           available' \in Seq(Conns), \A d \in InPool' : made'[d] = CurrentPool',
           "disconnect" \notin allowed =>
              Distinct(available') /\ InPool' \subseteq InPool \ {c},
           made' \in [Conns -> {"parent", "child", Nil}], made'[c] # Nil,
           c \in InPool \/ made[c] = Nil,
           \A d \in Conns \ {c} : made'[d] = made[d],
           initdb' \in [Threads -> {"idle", "locals", "storage"}],
           \A u \in Threads : initdb'[u] # "idle" => initdb[u] # "idle",
           UNCHANGED <<thread, joined, pid, process, allowed>>
    PROVE  PoolInv'
<1>1. /\ \A u \in Threads \ {t} : Held(u)' = Held(u)
      /\ Held(t)' \subseteq Held(t) \cup {c}
      /\ \A u \in Threads : Held(u) \subseteq Conns
  BY DEF PoolInv, PoolTypeOK, Held, Watch
<1>2. InPool \subseteq Conns
  BY DEF PoolInv, PoolTypeOK, InPool, Elements
<1>3. OwnInv'
  BY <1>1, <1>2, ClaimKeeps DEF PoolInv
<1>4. StackInv'
  <2>1. opened \subseteq Conns /\ \A d \in opened : made[d] # Nil
    BY DEF PoolInv, PoolTypeOK, StackInv
  <2>2. \A d \in opened' : made'[d] # Nil
    BY <2>1
  <2>3. ASSUME "disconnect" \notin allowed
        PROVE  Distinct(available)' /\ InPool' \cap opened' = {}
    <3>1. InPool \cap opened = {} /\ InPool' \subseteq InPool \ {c} /\ Distinct(available')
      BY <2>3 DEF PoolInv, StackInv
    <3> QED
      BY <3>1 DEF Distinct
  <2> QED
    BY <2>2, <2>3 DEF StackInv
<1>5. \A k \in DOMAIN available' : available'[k] \in Conns
  BY LenProperties, ElementOfSeq
<1>6. watched' \in [Threads -> Conns \cup {Nil}]
  BY DEF PoolInv, PoolTypeOK, Watch
<1>7. PoolTypeOK'
  BY <1>5, <1>6 DEF PoolInv, PoolTypeOK
<1>8. PlaceInv'
  BY DEF PoolInv, PlaceInv, PoolTypeOK
<1> QED
  BY <1>3, <1>4, <1>7, <1>8 DEF PoolInv

-----------------------------------------------------------------------------

LEMMA InitPool == PoolInit => PoolInv
<1> SUFFICES ASSUME PoolInit PROVE PoolInv
  OBVIOUS
<1>1. 1 \in Conns
  BY MaxConnsType DEF Conns
<1>2. InPool = {} /\ available \in Seq(Conns) /\ Distinct(available)
  BY EmptySeq DEF PoolInit, InPool, Elements, Distinct
<1>3. PoolTypeOK
  BY <1>1, MainIsThread DEF PoolInit, PoolTypeOK
<1>4. StackInv /\ PlaceInv
  BY <1>1, <1>2, NilIsNoConn DEF PoolInit, StackInv, PlaceInv
<1>5. OwnInv
  BY <1>1, <1>2, NilIsNoConn DEF PoolInit, OwnInv, Held
<1> QED
  BY <1>3, <1>4, <1>5 DEF PoolInv

\* Every step keeps the invariant, one case per action.
LEMMA NextPool == PoolInv /\ [PoolNext]_poolVars => PoolInv'
<1> SUFFICES ASSUME PoolInv, [PoolNext]_poolVars PROVE PoolInv'
  OBVIOUS
<1> USE DEF PoolInv
<1>same. ASSUME UNCHANGED pool, PoolTypeOK', PlaceInv', UNCHANGED allowed,
                CurrentPool' = CurrentPool,
                \A u \in Threads : Held(u)' \subseteq Held(u)
         PROVE  PoolInv'
  <2>1. OwnInv'
    BY <1>same, ShrinkKeeps DEF pool
  <2>2. StackInv'
    BY <1>same DEF pool, StackInv, Distinct, InPool, Elements
  <2> QED
    BY <1>same, <2>1, <2>2
<1>1. ASSUME NEW t \in Threads, NEW c \in Conns, RootOpens(t, c) PROVE PoolInv'
  <2>1. /\ available' \in Seq(Conns)
        /\ "disconnect" \notin allowed =>
             Distinct(available') /\ InPool' \subseteq InPool \ {c}
        /\ made' \in [Conns -> {"parent", "child", Nil}]
        /\ \A d \in InPool' : made'[d] = CurrentPool
        /\ c \in InPool \/ made[c] = Nil
        /\ made'[c] # Nil /\ \A d \in Conns \ {c} : made'[d] = made[d]
    BY <1>1, Opened DEF RootOpens, ConnOpen
  <2>2. UNCHANGED <<process, pid, initdb>>
    BY <1>1 DEF RootOpens, place
  <2>3. CurrentPool' = CurrentPool /\ initdb \in [Threads -> {"idle", "locals", "storage"}]
    BY <2>2, SamePool DEF PoolTypeOK
  <2>4. UNCHANGED <<thread, joined, allowed>> /\ thread[t] = "live"
    BY <1>1 DEF RootOpens
  <2>5. /\ opened' = opened \cup {c} /\ local' = [local EXCEPT ![t] = c]
        /\ Watch(t, c) /\ got' = [got EXCEPT ![t] = c]
    BY <1>1 DEF RootOpens, ConnOpen
  <2> HIDE DEF PoolInv
  <2> QED
    BY <2>1, <2>2, <2>3, <2>4, <2>5, OpenKeeps
<1>2. ASSUME NEW t \in Threads, NEW c \in Conns, InitStorage(t, c) PROVE PoolInv'
  <2>1. available' = <<>> /\ InPool' = {}
    BY <1>2 DEF InitStorage, InPool, Elements
  <2>2. available' \in Seq(Conns) /\ Distinct(available')
    BY <2>1, EmptySeq DEF Distinct
  <2>3. made[c] = Nil /\ process # Nil /\ made' = [made EXCEPT ![c] = process]
    BY <1>2, NilIsNoConn DEF InitStorage, IsNew, PoolTypeOK
  <2>4. /\ made' \in [Conns -> {"parent", "child", Nil}]
        /\ made'[c] # Nil /\ \A d \in Conns \ {c} : made'[d] = made[d]
    BY <2>3 DEF PoolTypeOK
  <2>5. /\ initdb' \in [Threads -> {"idle", "locals", "storage"}]
        /\ \A u \in Threads : initdb'[u] # "idle" => initdb[u] # "idle"
    BY <1>2 DEF InitStorage, PoolTypeOK
  <2>6. thread[t] = "live"
    BY <1>2 DEF InitStorage, PlaceInv
  <2> QED
    BY <1>2, <2>1, <2>2, <2>3, <2>4, <2>5, <2>6, OpenKeeps DEF InitStorage
<1>3. ASSUME NEW t \in Threads, RootReuses(t) PROVE PoolInv'
  <2>1. PoolTypeOK' /\ PlaceInv'
    BY <1>3 DEF RootReuses, PoolTypeOK, PlaceInv, pool, place
  <2>2. \A u \in Threads : Held(u)' \subseteq Held(u)
    BY <1>3 DEF RootReuses, PoolTypeOK, Held
  <2>3. CurrentPool' = CurrentPool
    BY <1>3, SamePool DEF RootReuses, place
  <2> QED
    BY <1>3, <1>same, <2>1, <2>2, <2>3 DEF RootReuses
<1>4. ASSUME NEW t \in Threads, RootForked(t) PROVE PoolInv'
  <2>1. PoolTypeOK' /\ PlaceInv'
    BY <1>4 DEF RootForked, PoolTypeOK, PlaceInv, pool
  <2>2. CurrentPool = "parent" /\ CurrentPool' = "parent"
    <3>1. ~pid /\ initdb'[t] = "locals"
      BY <1>4 DEF RootForked, PoolTypeOK
    <3> QED
      BY <3>1 DEF CurrentPool
  <2> QED
    BY <1>4, <1>same, <2>1, <2>2 DEF RootForked, Held
<1>5. ASSUME NEW t \in Threads, InitLocals(t) PROVE PoolInv'
  <2>1. PoolTypeOK' /\ PlaceInv'
    BY <1>5 DEF InitLocals, PoolTypeOK, PlaceInv, pool
  <2>2. \A u \in Threads : Held(u)' \subseteq Held(u)
    BY <1>5 DEF InitLocals, PoolTypeOK, Held
  <2>3. CurrentPool = "parent" /\ CurrentPool' = "parent"
    <3>1. initdb[t] = "locals" /\ initdb'[t] = "storage"
      BY <1>5 DEF InitLocals, PoolTypeOK
    <3> QED
      BY <3>1 DEF CurrentPool
  <2> QED
    BY <1>5, <1>same, <2>1, <2>2, <2>3 DEF InitLocals
<1>6. ASSUME NEW t \in Threads, Join(t) \/ EndTransaction(t) \/ Start(t)
      PROVE  PoolInv'
  <2>1. PoolTypeOK' /\ PlaceInv'
    BY <1>6 DEF Join, EndTransaction, Start, PoolTypeOK, PlaceInv, pool, place
  <2>2. CurrentPool' = CurrentPool
    BY <1>6, SamePool DEF Join, EndTransaction, Start, place
  <2> QED
    BY <1>6, <1>same, <2>1, <2>2 DEF Join, EndTransaction, Start, Held
<1>7. ASSUME NEW t \in Threads, Disconnect(t) PROVE PoolInv'
  <2> DEFINE c == local[t]
  <2>1. /\ c \in opened /\ c \in Conns /\ GiveBack(c) /\ "disconnect" \in allowed
        /\ UNCHANGED <<thread, local, watched, made, joined, process, pid, initdb, allowed>>
        /\ got' = [got EXCEPT ![t] = Nil]
    BY <1>7 DEF Disconnect, place, PoolTypeOK
  <2> HIDE DEF c
  <2>2. CurrentPool' = CurrentPool /\ made[c] # Nil
    BY <2>1, SamePool DEF StackInv
  <2>3. StackInv'
    BY <2>1, <2>2, Closed
  <2>4. \A k \in DOMAIN available' : available'[k] \in Conns
    BY <2>3, LenProperties, ElementOfSeq DEF StackInv
  <2>5. PoolTypeOK' /\ PlaceInv'
    BY <2>1, <2>4 DEF GiveBack, PoolTypeOK, PlaceInv
  <2>6. OwnInv'
    BY <2>1 DEF OwnInv
  <2> QED
    BY <2>3, <2>5, <2>6
<1>8. ASSUME NEW t \in Threads, Die(t) PROVE PoolInv'
  <2>1. PoolTypeOK' /\ PlaceInv'
    BY <1>8 DEF Die, PoolTypeOK, PlaceInv, pool, place
  <2>2. \A u \in Threads : Held(u)' \subseteq Held(u)
    BY <1>8 DEF Die, PoolTypeOK, Held
  <2>3. CurrentPool' = CurrentPool
    BY <1>8, SamePool DEF Die, place
  <2> QED
    BY <1>8, <1>same, <2>1, <2>2, <2>3 DEF Die
<1>9. ASSUME NEW t \in Threads, LocalsDie(t) PROVE PoolInv'
  <2> DEFINE c == watched[t]
  <2>1. /\ thread' \in [Threads -> {"new", "live", "dead", "gone"}]
        /\ local' \in [Threads -> Conns \cup {Nil}]
        /\ watched' \in [Threads -> Conns \cup {Nil}]
    BY <1>9 DEF LocalsDie, PoolTypeOK
  <2>2. PlaceInv'
    BY <1>9 DEF LocalsDie, PoolTypeOK, PlaceInv, place
  <2>3. got[t] = Nil /\ Held(t)' = {} /\ \A u \in Threads \ {t} : Held(u)' = Held(u)
    BY <1>9 DEF LocalsDie, PoolTypeOK, PlaceInv, Held
  <2>4. /\ UNCHANGED <<made, joined, process, pid, initdb, got, allowed>>
        /\ IF c # Nil THEN Destructor(c) ELSE UNCHANGED <<opened, available>>
    BY <1>9 DEF LocalsDie, place
  <2>5. CurrentPool' = CurrentPool /\ CurrentPool # Nil
    BY <2>4, SamePool, NilIsNoConn DEF CurrentPool
  <2>6. c # Nil => c \in Conns /\ c \in Held(t)
    BY DEF PoolTypeOK, Held
  <2> HIDE DEF c
  <2>7. CASE c # Nil /\ made[c] = CurrentPool /\ c \notin joined
    <3>1. GiveBack(c) /\ made[c] # Nil /\ c \in Conns
      BY <2>4, <2>5, <2>6, <2>7 DEF Destructor
    <3>2. "disconnect" \notin allowed => c \notin InPool
      BY <2>6, <2>7 DEF OwnInv
    <3>3. StackInv' /\ InPool' \subseteq InPool \cup {c}
      BY <2>4, <2>5, <3>1, <3>2, Closed
    <3>4. \A k \in DOMAIN available' : available'[k] \in Conns
      BY <3>3, LenProperties, ElementOfSeq DEF StackInv
    <3>5. PoolTypeOK'
      BY <2>1, <2>4, <3>1, <3>4 DEF GiveBack, PoolTypeOK
    <3>6. OwnInv'
      BY <2>3, <2>4, <2>6, <2>7, <3>3 DEF OwnInv
    <3> QED
      BY <2>2, <3>3, <3>5, <3>6
  <2>8. CASE c # Nil /\ made[c] = CurrentPool /\ c \in joined
    <3>1. opened' = opened \cup {c} /\ available' = available /\ c \in Conns
      BY <2>4, <2>6, <2>8 DEF Destructor
    <3>2. InPool' = InPool /\ (Distinct(available)' <=> Distinct(available))
      BY <3>1 DEF InPool, Elements, Distinct
    <3>3. PoolTypeOK'
      BY <2>1, <2>4, <3>1 DEF PoolTypeOK
    <3>4. \A d \in opened' : made[d] # Nil
      BY <2>5, <2>8, <3>1 DEF StackInv
    <3>5. "disconnect" \notin allowed => InPool' \cap opened' = {}
      BY <2>6, <2>8, <3>1, <3>2 DEF OwnInv, StackInv
    <3>6. StackInv'
      BY <2>4, <2>5, <3>1, <3>2, <3>4, <3>5 DEF StackInv
    <3>7. OwnInv'
      BY <2>3, <2>4, <3>2 DEF OwnInv
    <3> QED
      BY <2>2, <3>3, <3>6, <3>7
  <2>9. CASE c = Nil \/ made[c] # CurrentPool
    <3>1. UNCHANGED <<opened, available>>
      BY <2>4, <2>9 DEF Destructor
    <3>2. PoolTypeOK'
      BY <2>1, <2>4, <3>1 DEF PoolTypeOK
    <3> QED
      BY <1>same, <2>2, <2>3, <2>4, <2>5, <3>1, <3>2 DEF pool
  <2> QED
    BY <2>7, <2>8, <2>9
<1>10. ASSUME NEW t \in Threads, Fork(t) PROVE PoolInv'
  <2>1. PoolTypeOK'
    BY <1>10 DEF Fork, PoolTypeOK, pool
  <2>2. PlaceInv'
    BY <1>10 DEF Fork, PoolTypeOK, PlaceInv
  <2>3. \A u \in Threads : Held(u)' \subseteq Held(u)
    BY <1>10 DEF Fork, PoolTypeOK, Held
  <2>4. CurrentPool' = CurrentPool
    BY <1>10 DEF Fork, CurrentPool
  <2> QED
    BY <1>10, <1>same, <2>1, <2>2, <2>3, <2>4 DEF Fork
<1>11. ASSUME UNCHANGED poolVars PROVE PoolInv'
  <2>1. PoolTypeOK' /\ PlaceInv'
    BY <1>11 DEF poolVars, pool, place, PoolTypeOK, PlaceInv
  <2>2. CurrentPool' = CurrentPool
    BY <1>11, SamePool DEF poolVars, place
  <2> QED
    BY <1>11, <1>same, <2>1, <2>2 DEF poolVars, Held
<1> QED
  BY <1>1, <1>2, <1>3, <1>4, <1>5, <1>6, <1>7, <1>8, <1>9, <1>10, <1>11 DEF PoolNext

LEMMA PoolInvariance == PoolSpec => []PoolInv
BY InitPool, NextPool, PTL DEF PoolSpec

\* Whatever liberties are taken, the pool has only connections of its own; and as long
\* as no thread disconnects it has each once and only while it is closed (the
\* destructors, DB.disconnect, a fork).
THEOREM PoolConsistent == PoolSpec => []PoolIsConsistent
<1>1. PoolInv => PoolIsConsistent
  BY DEF PoolInv, StackInv, Distinct, InPool, Elements, PooledOnce, PoolIsConsistent
<1> QED
  BY <1>1, PoolInvariance, PTL

\* However threads die and the process forks: as long as no thread disconnects,
\* two threads never use one connection (_root, _conn_open).
THEOREM NeverShared == PoolSpec => []Exclusive
<1>1. PoolInv => Exclusive
  BY DEF PoolInv, OwnInv, Held, Exclusive, Unshared
<1> QED
  BY <1>1, PoolInvariance, PTL
=============================================================================
