------------------------------ MODULE Sliceable ------------------------------
(***************************************************************************)
(* Sliceable and ListPrefetch: query results as a list that is computed    *)
(* from an iterator, with an LRU cache of the elements seen so far.        *)
(*                                                                         *)
(* The object remembers in "stop" how far its iterator has advanced; the   *)
(* model keeps the true position as well.  Element number i of the list is *)
(* the number i.  None is a possible value of stop.                        *)
(***************************************************************************)
EXTENDS PythonNone, Sequences, SequencesExt

CONSTANTS
    N,           \* number of elements
    CacheSizes,  \* sizes of the LRU cache
    Prefetch,    \* ListPrefetch.prefetch_size
    Cases,       \* the classes and uses to look at, see Case
    Steps        \* steps of slices

\* ahead: 0 for a plain Sliceable, else ListPrefetch.prefetch_size; cache: the
\* size of its cache; uses:
\*   "loop": one loop, "iterate": loops, which may be left and started again,
\*   "page": one pass over the list in pages of any sizes,
\*   "item": any element, "slice": bounded slices,
\*   "open_slice": slices without an end
Case == [ahead : {0, Prefetch},
         cache : CacheSizes,
         uses : SUBSET {"loop", "iterate", "item", "page", "slice", "open_slice"}]

ASSUME SizesType == N \in Nat /\ Prefetch \in Nat \ {0} /\ CacheSizes \subseteq Nat \ {0}
ASSUME StepsType == Steps \subseteq Nat \ {0}
ASSUME CasesType == Cases \subseteq Case

VARIABLES
    case,    \* the class of the object and how it is used
    self,    \* the object: iterator position, stop and cache
    asked,   \* the last key: [start, end, step], an item has step 0
    given    \* what came back: elements, or that it raised

listVars == <<case, self, asked, given>>

\* The cache is a sequence of keys with values, the least recently used first.
Pair == [key : Nat, value : Nat]
State == [pos : 0 .. N, stop : Nat \cup {None}, cache : Seq(Pair)]

KeysOnce(c) == \A j, k \in DOMAIN c : c[j].key = c[k].key => j = k

ListTypeOK ==
    /\ case \in Cases
    /\ self \in State
    /\ Len(self.cache) <= case.cache /\ KeysOnce(self.cache)
    /\ asked \in [start : Nat, end : Nat \cup {None}, step : Nat]
    /\ given \in [kind : {"elements", "StopIteration", "error"}, elements : Seq(Nat)]

Elements(es) == [kind |-> "elements", elements |-> es]
Raised(kind) == [kind |-> kind, elements |-> <<>>]

\* The first n of start, start + step, ...
Counting(start, n, step) == [j \in 1 .. n |-> start + (j - 1) * step]

\* range(start, end, step), where an end of None stands for the whole list
Stepping(start, end, step) ==
    LET last == IF end = None \/ end > N THEN N ELSE end
        n == CHOOSE j \in 0 .. N : /\ start + j * step >= last
                                  /\ \A k \in 0 .. j - 1 : start + k * step < last
    IN Counting(start, n, step)

-----------------------------------------------------------------------------
(* cachetools.LRUCache *)

Cached(c, k) == \E j \in DOMAIN c : c[j].key = k
Place(c, k) == CHOOSE j \in DOMAIN c : c[j].key = k
Value(c, k) == c[Place(c, k)].value

\* Setting an element makes it the most recently used one, reading it too; a new
\* one takes the place of the first when the cache is full.
Put(c, kv) ==
    LET out == IF Cached(c, kv.key) THEN Place(c, kv.key) ELSE 1 IN
    Append(IF Cached(c, kv.key) \/ Len(c) = case.cache THEN RemoveAt(c, out) ELSE c, kv)

Touch(c, k) == Put(c, [key |-> k, value |-> Value(c, k)])

\* The values, under start, start + step, ...
PutAll(c, start, step, values) ==
    FoldLeft(Put, c, [j \in 1 .. Len(values) |->
                        [key |-> start + (j - 1) * step, value |-> values[j]]])

-----------------------------------------------------------------------------
(* islice(iterator, from, to, step) on an iterator at pos: what it yields, *)
(* and where it leaves the iterator.                                        *)

\* Mutant of Taken: the end is one too low.
TakenShort(pos, from, to, step) ==
    Stepping(pos + from, IF to = None THEN None ELSE pos + to - 1, step)

Taken(pos, from, to, step) ==
    Stepping(pos + from, IF to = None THEN None ELSE pos + to, step)

Left(pos, from, to) ==
    LET p == IF to = None THEN N ELSE pos + (IF from > to THEN from ELSE to)
    IN IF p > N THEN N ELSE p

\* The iterator starts again.
Rewound(t) == [pos |-> 0, stop |-> 0, cache |-> t.cache]

\* Mutant of GetItem: a StopIteration leaves the iterator where it is.
GetItemNoReset(t, k) ==
    IF Cached(t.cache, k)
    THEN [s |-> [t EXCEPT !.cache = Touch(@, k)], res |-> Elements(<<Value(t.cache, k)>>)]
    ELSE LET r == IF k < t.stop THEN Rewound(t) ELSE t
             i == r.pos + (k - r.stop)
         IN IF i >= N THEN [s |-> [r EXCEPT !.pos = N], res |-> Raised("StopIteration")]
            ELSE [s |-> [pos |-> i + 1, stop |-> k + 1, cache |-> Put(r.cache, [key |-> k, value |-> i])],
                  res |-> Elements(<<i>>)]

\* Sliceable.__getitem__(k): the new object and the result
GetItem(t, k) ==
    IF Cached(t.cache, k)
    THEN [s |-> [t EXCEPT !.cache = Touch(@, k)], res |-> Elements(<<Value(t.cache, k)>>)]
    ELSE IF t.stop = None THEN [s |-> t, res |-> Raised("error")]
    ELSE LET r == IF k < t.stop THEN Rewound(t) ELSE t
             i == r.pos + (k - r.stop)
         IN IF i >= N THEN [s |-> Rewound(r), res |-> Raised("StopIteration")]
            ELSE [s |-> [pos |-> i + 1, stop |-> k + 1, cache |-> Put(r.cache, [key |-> k, value |-> i])],
                  res |-> Elements(<<i>>)]

\* How many of start, start + step, ... below end the cache holds before the
\* first that it does not hold, index_upd.
Hits(c, start, end, step) ==
    LET past == {j \in 0 .. Len(c) : \/ j = Len(c)
                                     \/ ~Cached(c, start + j * step)
                                     \/ end # None /\ start + j * step >= end}
    IN CHOOSE j \in past : \A k \in past : j <= k

\* The branch that starts the iterator again: with no end, stop is computed
\* from the last element, and there is none when the slice is empty.
SliceAnew(t, start, end, step) ==
    LET es == Taken(0, start, end, step) IN
    IF end = None /\ es = <<>>
    THEN [s |-> [t EXCEPT !.pos = Left(0, start, end)], res |-> Raised("error")]
    ELSE [s |-> [pos |-> Left(0, start, end),
                 stop |-> IF end = None THEN start + (Len(es) - 1) * step + 1 ELSE end,
                 cache |-> PutAll(t.cache, start, step, es)],
          res |-> Elements(es)]

\* The branch that takes what is cached and goes on with the iterator.  The keys
\* of new elements are counted from start, also when the first come from the cache.
SliceOn(t, start, end, step) ==
    LET hits == Hits(t.cache, start, end, step)
        upd == start + hits * step
        old == [j \in 1 .. hits |-> Value(t.cache, start + (j - 1) * step)]
        none == end # None /\ upd >= end
        to == IF end = None THEN None ELSE end - t.stop
        new == IF none THEN <<>> ELSE Taken(t.pos, upd - t.stop, to, step)
    IN [s |-> [pos |-> IF none THEN t.pos ELSE Left(t.pos, upd - t.stop, to),
               stop |-> end,
               cache |-> PutAll(PutAll(t.cache, start, step, old), start, step, new)],
        res |-> Elements(old \o new)]

\* Sliceable.__getitem__(slice(start, end, step)), not both ends open
GetSlice(t, start, end, step) ==
    LET upd == start + Hits(t.cache, start, end, step) * step IN
    IF t.stop = None THEN [s |-> t, res |-> Raised("error")]
    ELSE IF upd < t.stop /\ (end = None \/ upd < end)
         THEN SliceAnew(t, start, end, step)
         ELSE SliceOn(t, start, end, step)

\* ListPrefetch.__getitem__: when stop has moved, read ahead; what that
\* raises, other than StopIteration, replaces the result.
Ahead(t, r, next) ==
    IF case.ahead = 0 \/ next = None \/ r.res.kind # "elements" \/ r.s.stop = t.stop THEN r
    ELSE LET a == GetSlice(r.s, next, next + case.ahead, 1)
         IN [s |-> a.s, res |-> IF a.res.kind = "error" THEN a.res ELSE r.res]

-----------------------------------------------------------------------------

ListInit ==
    /\ case \in Cases
    /\ self = [pos |-> 0, stop |-> 0, cache |-> <<>>]
    /\ asked = [start |-> 0, end |-> 0, step |-> 1]
    /\ given = Elements(<<>>)

Ask(key, r) ==
    /\ asked' = key
    /\ self' = r.s
    /\ given' = r.res
    /\ UNCHANGED case

NextOfLoop(k) ==
    k = asked.start + 1 /\ asked.step = 0 /\ given.kind = "elements"

\* x[k]; __iter__ asks for 0, 1, 2, ... until StopIteration
Item(k) ==
    /\ \/ "item" \in case.uses
       \/ "iterate" \in case.uses
          /\ (NextOfLoop(k) \/ (k = 0 /\ (asked.step = 0 \/ asked.end = 0)))
       \/ "loop" \in case.uses
          /\ (NextOfLoop(k) \/ (k = 0 /\ asked.step = 1 /\ asked.end = 0))
    /\ Ask([start |-> k, end |-> k + 1, step |-> 0], Ahead(self, GetItem(self, k), k + 1))

\* x[start:end:step]; reading ahead leaves out element number end.
Slice(start, end, step) ==
    /\ \/ "slice" \in case.uses
       \/ "page" \in case.uses /\ start < end /\ step = 1
                          /\ asked.step = 1 /\ start = asked.end
    /\ Ask([start |-> start, end |-> end, step |-> step],
           Ahead(self, GetSlice(self, start, end, step), IF end = 0 THEN None ELSE end + 1))

OpenSlice(start, step) ==
    /\ "open_slice" \in case.uses
    /\ Ask([start |-> start, end |-> None, step |-> step],
           Ahead(self, GetSlice(self, start, None, step), None))

ListNext ==
    \/ \E k \in 0 .. N : Item(k)
    \/ \E start, end \in 0 .. N + 1, step \in Steps : Slice(start, end, step)
    \/ \E start \in 0 .. N, step \in Steps : OpenSlice(start, step)

ListSpec == ListInit /\ [][ListNext]_listVars

-----------------------------------------------------------------------------
(* Properties. *)

\* What a list of the N elements answers.
ListAnswer(key) ==
    IF key.step # 0 THEN Elements(Stepping(key.start, key.end, key.step))
    ELSE IF key.start < N THEN Elements(<<key.start>>) ELSE Raised("StopIteration")

\* The uses under which the object is a list: a plain Sliceable takes elements
\* in any order, or loops and one pass in pages; a ListPrefetch takes one loop,
\* and loops that are left and started again when its cache holds the list:
\* with a smaller one, reading ahead puts elements under wrong keys once the
\* first of the elements ahead are cached and the next ones are not.
Orderly ==
    IF case.ahead = 0 THEN case.uses \in {{"item"}, {"page", "iterate"}}
    ELSE case.uses = {"loop"} \/ (case.uses = {"iterate"} /\ case.cache >= N)

\* "a sliceable, cached list-like interface to an iterator": every answer is
\* the list's, whatever was asked before (Sliceable.__getitem__).
ListLike == given = ListAnswer(asked)

ListLikeInOrder == Orderly => ListLike

\* As long as the object is used in order the cache is bounded and holds no
\* wrong element, and stop is where the iterator is, or both are past the end
\* (Sliceable.__getitem__, both branches of a slice).
StateRight ==
    /\ ListTypeOK
    /\ Orderly => /\ \A j \in DOMAIN self.cache : self.cache[j].key = self.cache[j].value
                  /\ self.stop # None /\ (self.stop = self.pos \/ (self.stop > N /\ self.pos = N))
=============================================================================
