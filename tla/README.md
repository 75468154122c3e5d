# TLA+ specifications of zerodb

ZeroDB is an encrypted object database: a Python client on top of ZODB and ZEO
that keeps Model objects, indexes them on the client, encrypts every record
before it leaves the client, and a server that knows users by their
certificates and records by their owners but cannot read them.  This directory
models the client's and the server's own logic in TLA+, checks it with TLC on
small instances and proves part of it with TLAPS for all instances.

Paths below are relative to the repository's root; line numbers are of the
commit the models were written from.  ZODB, ZEO, `transaction`, `persistent`,
`cachetools`, `zope.component`, `zope.event`, `zope.index` and `repoze.catalog`
are not in the repository: what a module needs of them is modelled from the way
the code in `zerodb/` uses them, and marked as external in `PROJECT.json`.

## 1. Inventory

| Component | Source | State | Operations | Hard part | Module |
|---|---|---|---|---|---|
| Models, automatic reindexing | `db.py`, `models/__init__.py`, `collective/indexing/subscribers.py` | attributes, `_p_uid`, store and catalog of each model, `enabled` | `__setattr__`, `DbModel.add`, `remove`, `reindex`, `__getitem__`, `enableAutoReindex` | immediate changes of the catalog next to changes deferred to a hook | `AutoReindex` |
| Queue and transaction hook | `collective/indexing/queue.py`, `transactions.py` | thread-local list, `tmhook`, `registered`, hook and membership in the transaction | `reindex`, `hook`, `optimize`, `process`, `clear`, `before_commit`, `abort`, savepoints | aborts, conflicts, failing hooks, rollbacks; threads | `IndexQueue`, `AutoReindex` |
| Object store | `intid.py`, creation in `db.py` | uid -> object, length, `_v_nextid` of each connection, `_models` | `add`, `remove`, `_generateId`, `DbModel.__init__` | uids drawn independently by concurrent transactions, merged commits | `IdStore` |
| Field index | `catalog/indexes/field.py` | forward index in three representations, reverse index, counter, documents without value | `index_doc`, `unindex_doc`, searches | changes of representation, two directions, failing half way | `FieldIndex`, `FieldSearch`, `FieldMap` |
| Lucene text index | `catalog/indexes/text_lucene.py`, `pwid.py`, `text.py` | postings by score, lengths, word ids of each document | `index_doc`, `_reindex_doc`, `unindex_doc`, `search`, `mass_weightedUnion` | old scores must be recomputed exactly; a sorted union of lists that are read as little as possible | `LuceneIndex`, `TextIndexes`, `WeightedUnion`, `TextSearch` |
| Okapi index, lexicon | `text_okapi.py`, `text_lexicon.py` | occurrences and lengths of documents; words and ids | `index_doc`, `_reindex_doc`, `_search_wids` | records that change their form; only changed words are touched | `OkapiIndex`, `TextIndexes`, `TextSearch` (without the lexicon) |
| Catalog, queries | `catalog/`, `query.py`, `DbModel.query` | none of their own | comparators, And, Or, negation, sorting, paging, JSON form | edges of ranges and pages; nested negations | `FieldSearch`, `QueryJson` |
| Result lists | `util/iter.py` | iterator, `stop`, LRU cache | items, slices, loops, read-ahead | the shared iterator and its recorded position | `Sliceable` |
| Connections | `db.py`, `util/thread_watcher.py` | thread-locals, pool, pid, vigils | `_root`, `_conn_open`, `_init_db`, `disconnect`, destructor | threads that die, forks, reuse | `ConnPool` |
| Users and logins | `permissions/base.py`, `subdb.py` | users, names, certificates (three directories), user records, sessions | `add_user`, `del_user`, `change_cert`, `register` | partial failure, plain dictionaries, reload | `UserAdmin` |
| Record ownership | `permissions/ownerstorage.py`, `subdb.py` | owner and serial of records, client caches, invalidation queue | `store`, `loadBefore`, `invalidate`, reconnection | lost and short invalidations | `OwnerStorage` |
| Encryption and compression | `transform/`, `storage/transforming.py` | global registries of each process, signatures in records | `init_crypto`, opening, store, load | only the root names its cipher; the registry is shared | `TransformingStorage` |
| Storage client | `storage/__init__.py` | the client's cache | `prefetch`, `prefetch_trees`, `btree_state_search`, `parallel_traversal` | following many keys level by level with one call each | `TreeSearch`, `TextSearch` |
| Forker, testing | `forker.py`, `testing.py` | child process | start, stop | | no |
| Key derivation, statistics, tree families, glue | `crypto/`, `permissions/userstats.py`, `trees/`, `util/debug.py` | none | pure functions or class attributes | | no |

How the parts meet.  `Model.__setattr__` sends zope's modified event;
`subscribers.py` turns it into an entry of the thread's `IndexQueue`, which joins
the current transaction (`QueueTM`) and asks for a before-commit hook.  The hook
processes the queue through the utility "zerodb-indexer", the
`AutoReindexQueueProcessor` of the last `DB` that was made, which recomputes
catalog entries with `DbModel.reindex_one`.  `DbModel.add` and `remove` go to
store and catalog at once.  Both work on the connection that `DB._root` gives
the current thread.  What is committed passes through `TransformingStorage` to
ZEO and on the server through `OwnerStorage`, under a session that `register`
bound to a user; what two clients have done to the same `IdStore` is merged there.
A text search brings the paths it needs into the client's cache with
`parallel_traversal` before it looks anything up.  Queries come back as a
`Sliceable` or a `ListPrefetch`.

What makes each part correct, in a sentence: the committed catalog is that of
the committed objects (models, queue); the two directions of an index agree and
its postings are those of the present documents (indexes); concurrent clients lose
no object (store); a search finds what matches, once (queries); a result list is
the list (iterators); a connection has one user, and returns (connections);
directories agree and a login reaches an existing user (users); a client's cached
record of its own is current or about to be invalidated (ownership); whatever is
stored can be read by every later process (encryption).

`PROJECT.json` lists all components with their status, and under `hazards` the
places where this can go wrong in ways a test would hardly reach.

## 2. Modules

| Module | What it is |
|---|---|
| `AutoReindex` | one client under transactions: objects, store, catalog, queue, hook, savepoint |
| `AutoReindexInv`, `AutoReindexProofs` | its inductive invariant; theorems |
| `IndexedStore` | what such a client promises: a transactional table |
| `IndexQueue` | the queue as a list, reduced, processed, by several threads; theorems in `ThreadsProofs` |
| `FieldIndex`, `FieldMap`, `FieldIndexProofs` | the field index; a map from documents to values; theorems about it and about the result lists of its queries |
| `FieldSearch` | its searches, queries on it, sorted results and pages; theorems in `FieldIndexProofs` |
| `QueryJson` | JSON queries compiled, negated and applied to it and to a text index |
| `IdStore`, `IdStoreProofs` | the object store of a model under concurrent connections; theorems |
| `LuceneIndex`, `OkapiIndex`, `TextIndexes`, `TextIndexesProofs` | the document life cycle of each text index, and of both together; theorems |
| `TreeSearch` | bulk fetches of paths and of whole trees |
| `WeightedUnion` | the lazy union of several words' documents; theorems in `TextIndexesProofs` |
| `TextSearch` | a search from the look-up of its words to its results, by either index |
| `Sliceable` | `Sliceable` and `ListPrefetch` with iterator and cache; theorems in `FieldIndexProofs` |
| `PythonNone` | `None`, as a bound, a limit, an end of a slice; it is no number |
| `ConnPool` | threads, a fork and the pool of connections; theorems in `ThreadsProofs` |
| `ProcessThreads`, `ThreadsProofs` | the threads of a process, which both of these have; the theorems about them |
| `UserAdmin`, `UserAdminProofs` | admin, directories, logins; theorems |
| `OwnerStorage`, `OwnerStorageProofs` | owners, invalidations, client caches; theorems |
| `TransformingStorage`, `TransformingStorageProofs` | registries, signatures, open/store/load; theorems |
| `MC*` | the instances for TLC: values of constants, symmetries |

A definition keeps the name of the code it stands for where there is one;
`PROJECT.json`, `map`, gives the lines of each.  A definition described as a
mutant is the changed form of the next one, with a plausible bug in it: put in
its place, a run finds the property violated that it belongs to.

**AutoReindex.** d-variables are committed, m-variables are what this connection
sees; `saved`, `jar` and `touched` are what ZODB knows of the objects (has a
record, belongs to the connection, is registered as changed).  `puid` is the
`_p_uid` in an object's dictionary, which a ghost loses.  The queue is the set of
its (object, attribute) pairs, which is sound for a queue of REINDEX operations:
`SamePairs` of `IndexQueue`, checked there and proved.  Each action is a whole call: `SetAttr` notifies,
queues, registers and then sets; `Commit` runs the hook, clears, and commits;
`CommitConflict` does the same up to the point where a resource refuses;
`HookRaises` stops after any part of the queue; `Savepoint` and `Rollback` move
objects, store, catalog *and* queue, each by its own mechanism.

**IndexQueue.** The list itself, `optimize`'s fold over it with its clamped sum of
operations, and `process` with an exception at any entry the processor acts on.
`stale` has, of each thread, the attributes that were modified since its index was given
their values.  zerodb's `AutoReindexQueueProcessor` has a `reindex` only, `index` and
`unindex` are the base class's and empty, and zerodb queues nothing but REINDEX: so a
REINDEX makes what it names fresh and the other operations do nothing.  That an
application queues them is the liberty `index_ops`; `optimize` is checked with them too.
`processQueue` is split at its test, add and remove, since the set `processing`
is shared by all threads while the list is thread-local.  The processor is a named
utility of the process: `OpenOtherDB` replaces it by that of another DB, which then
indexes our objects in its own catalog, and `EnableAutoReindex` switches it.

**IdStore.** `committed` is the database's store; each connection has the `base` its
transaction started from and its `view`.  `add` is a loop: `TakeNext`, `NextTaken` and
`Draw` are its turns, between which other connections go on.  A commit merges the
keys the transaction has changed with what others have committed, and is refused
where both changed a key or both made the store.  `CreateModel` .. `CreateFails` are
`DbModel.__init__` outside of a transaction, with the commit of its own; inside of one
(`GetModel`) the new store belongs to the transaction and `_models` keeps the DbModel
in any case.

**FieldIndex.** A forward entry is its representation (integer, tuple, TreeSet) and
its documents.  `IndexDocMissing` and `IndexDocMissingBare` are the two outcomes
for a document without value: unindexing in the base class, which knows only
TreeSets.

**FieldSearch** adds what only reads: lookups over entries in every form, the
comparators and `And` and `Or` with their short cuts, and `DbModel.query` with skip
and limit.  Its properties compare them, in every state the index can reach, with
the values the documents were given last.  The order of documents of one value
is left open, so a page is compared by its values.

**QueryJson.** A clause, with any of the fourteen operators, is compiled to a query
object as `compile` does, a negation is pushed through the objects by `negate`, and the
result is applied; `JsonFinds` compares what is found with what the JSON form says of
each document.  A result is a set or a `Sliceable`: zerodb's `And` and `Or` make sets of
their operands (`_to_set`), the library's, which `negate` makes, and its negative lookups
do not.  Whether the library takes a `Sliceable` there, and whether its field index has a
lookup for `All`, is not in this repository; `Refusals` has a library that does both and
one that refuses either.  With a refusal some queries raise, and the others find what
they should.  `$text` looks up words in a text index of the same catalog, which has the
text of every document the catalog knows (`Containing`); that a text index finds them is
the matter of the next two groups of modules.

**LuceneIndex, OkapiIndex, TextIndexes.** A text is the number of occurrences of each
word.  A Lucene score keeps the numbers it is computed from, so two scores are
equal exactly when the code computes the same float.  `OkapiIndex` has the words'
records as dicts and BTrees, the lengths and the counts of words and documents.  `TextIndexes` is a
model with a field of each kind: one operation of the catalog goes to both, an
exception ends both, and a document without value is taken out of both.

**TreeSearch, WeightedUnion, TextSearch.** A node is a record of separators and
children; one turn of `parallel_traversal` or `prefetch_trees` is an action, and
`fetched` is what has come in bulk.  `WeightedUnion` is `mass_weightedUnion` with an
action for the refilling of the caches, for a turn of the inner loop and for giving
back an element; `reader` has, of each list, how far its iterator is and whether it has
been deleted (`iters`), its cache (`caches`) and the bound of what is unread
(`unread_max`).  `sorted_mins` and the maxima are computed from the caches, as the
comment in line 427 of `text_lucene.py` says ("Slower equivalent").  Scores are integers,
already multiplied with the word's weight.  `UnionSpec` is the union by itself, of
any lists; `TextSearch` takes the same steps in a search.  `TextSearch` takes the searches from `Cases`: `search` of the Lucene index
goes from the look-up to the union, its `query_weight` looks words up only, and the
Okapi index fetches the words' trees and the documents' weights.

**Sliceable.** The true position of the iterator is kept beside `stop`, which is
what the object believes; all branches of `__getitem__` are translated, with the
LRU cache as a sequence in order of use.  Element *i* of the list is *i*.

**ConnPool.** One process up to and after one fork.  `_init_db` is split between
setting `__pid`, replacing the thread-locals and opening the storage, the points
where other threads of the child look.  `Destructor` looks for its connection in the pool
of the current `_db` only, sets `opened` whatever it was and closes: a connection that
`disconnect` has returned is returned again.

**UserAdmin.** `db` is committed, `mem` what the admin's connection sees, `dirty`
which persistent objects are registered as changed: `User.certs` is a plain
dictionary, so changes to it alone are in memory and never registered.  `register`
reads what is committed.

**OwnerStorage.** A server with owners and serials of records, an invalidation
queue of bounded length and a channel to each connected client.

**TransformingStorage.** Per process the registry of classes, named and default
encrypters and compressor; per record what was done to it.  Opening is a step for
every registration, since another database of the process may load in between.

## 3. Runs

| Run | Shows | Distinct states |
|---|---|---|
| `AutoReindex_careful` | committed index = committed objects; nothing out of date unqueued or unhooked; the client implements `IndexedStore` | 963,584 |
| `AutoReindex_remove_modified` | *violation*: an entry for a uid that is gone | |
| `IndexQueue_pass` | what is modified and not yet indexed is in the queue, also after the processor raised; reduced queues have one operation per object, unindex first, also with INDEX and UNINDEX queued and while the processor is replaced or switched off | 500,179 |
| `FieldIndex_pass` | both directions, forms and counter agree; implements `FieldMap`; searches, JSON queries with negations, and pages find what matches | 12,439 |
| `TextIndexes_pass` | with `keep_phrases`, both text indexes keep what the present texts say, and old scores are always found | 177,712 |
| `TextSearch_pass` | bulk fetches bring exactly the paths and trees needed; the lazy union gives a document once, leaves out at most one of those it has read, and its bounds hold | 369,127 |
| `IdStore_pass` | no object is lost or doubled by concurrent adds, removes and creations; the Length is right; `add` returns | 353,205 |
| `Sliceable_pass` | with a cache smaller than the list, items in any order, loops and one pass in pages of a Sliceable, and one loop over a ListPrefetch give the list's elements; with one that holds it, so do restarted loops over a ListPrefetch | 20,290 |
| `ConnPool_pass` | without disconnects no connection is shared and none is in the pool twice or open; the pool has only its own connections, also with disconnects and after a fork; connections of dead threads come back | 146,804 |
| `UserAdmin_pass` | directories and records agree, logins reach users, accepted = known certificates | 1,786,392 |
| `OwnerStorage_pass` | caches are coherent for the user's own records | 2,495,102 |
| `TransformingStorage_pass` | every record stays readable, every open handle can load | 1,208,821 |

Where the table of a module's types is not a property of its own, one of its
properties contains it.

**Liberties and regimes.** Several modules come with a set of *liberties*: things
an application may do that the code does not protect against.  In `AutoReindex`,
`IdStore` and `TransformingStorage` the constant `Liberties` gives those that are
taken; in `IndexQueue` and `UserAdmin` the variable `taken` is chosen at the start from the constant
`Regimes`, in `ConnPool` `allowed` from `PoolRegimes`, and `Sliceable` chooses class and use from `Cases`, so that
one run covers careful and careless applications and a property says under
which of them it holds.  Section 6 has what goes wrong otherwise.

**Bounds, and why they are enough.**

- `AutoReindex`: two objects and two uids (an object can return under another uid,
  a uid can get another object), one attribute, two values, one savepoint per
  transaction.  No bound on the number of transactions.  The properties compare
  entries one by one, so a violation involves one uid, one attribute and at most two
  objects; the theorem of section 5 does not depend on the bounds.  `use_failed`
  is taken in the run: a failed transaction may go on being used.
- `IndexQueue`: at most three entries in all queues together (`MaxQueue`), two threads,
  two objects, two attributes.  `optimize` treats objects apart, and three operations
  on one object include every pair of transitions of the clamped sum.  Where INDEX and
  UNINDEX are queued too, a REINDEX names all attributes, as a list or by None
  (`MixedArgs`), since they make None of any list they are united with.  An application
  that replaces or switches off the processor has one entry at a time (`Room`).
- `IdStore`: two connections, three objects and uids 0 to 2, of which 0 and 1 can be
  drawn at random: uids run out, wrap around, collide between connections and are
  used again.  The same run with uids 0 to 3 passes too (1,242,088 states).
- `FieldIndex`: threshold 3 instead of 10, four documents and three values: each of
  the forms is entered and left, with the other values in any form, and a range has
  values below, inside and above it.
  JSON queries are single clauses of all fourteen operators with every value, pair of
  values, set of values and a word, their single and double negations, and two of seven
  clauses (a set, Sliceables, negative lookups) joined, with both or one negated.  `Not` of a
  join is the library's join of the opposites, so two operands reach every turn of its loop.
- `TextIndexes`: three documents, two words with up to two occurrences, a dict of at
  most two documents; the Lucene index's `wordCount`, which never decreases, is bounded
  by twice the number of words, and the fall of the Okapi index's `totaldoclen` by
  `MaxDrift`.
- `TextSearch`: all scores 0 to 2 of six documents in two lists, in the order of the
  first list's, a cache of four, windows of three and a permitted violation of one
  place (40, 15 and 3 in the code), so that caches are refilled, windows move and
  bounds decide; one case of thirteen documents, in which all that is read next has been
  given back before (`LongCase`); trees of one, two and three levels, queries of any of ten words.
- `Sliceable`: eight elements, a cache of four or of nine, three elements read ahead.
  A page, what is read ahead and the cache can each be the largest.  The same
  properties pass with 5, 8 and 9 elements, a cache of 1 to 6 and 1 to 5 elements read
  ahead.
- `ConnPool`: three threads (the main one included) and three connections, one fork.
- `UserAdmin`: two users (one of them root), two names, two certificates and the
  "nobody" certificate, one password.
- `OwnerStorage`: two sessions of a user and one of root, an invalidation queue of
  length two, three transactions: a client can be away longer than the queue lasts.
- `TransformingStorage`: two processes, two databases (one with a compressor), two
  ciphers, a root and one other record.

Symmetry is used for interchangeable threads, certificates, names and sessions,
never in a run that checks liveness.

**Fairness.** Two modules have a liveness property.  `ConnPool` assumes weak fairness
of `LocalsDie`: the interpreter drops the thread-locals of a dead thread at some
time.  `tests/test_pooling.py:30` says "Threadlocals die only when another thread
accesses them", which is why this is a fairness assumption and not part of the
thread's death.  `IdStore` assumes weak fairness of the turns of `_generateId` in
each connection: a call of `add` goes on.  `Draw` is a draw that hits a free uid; that
`random.randrange` comes to one, as long as there is one, is what `AddFinishes` rests
on.  No transaction is assumed to end, and nothing else to happen.

**Deadlock** is checked except where the system may stop: after an operation that
raised (`FieldIndex`, `TextIndexes`; its transaction is lost), at the bounds of
`TextIndexes`, at the end of a search (`TextSearch`) or when all threads of a forked
child are dead (`ConnPool`).

## 4. Refinements

- `AutoReindex` implements `IndexedStore`: `committed` is read from the committed
  *index* and `working` from the *objects* in memory, so a commit must have carried
  every modification into the index, and aborts, conflicts and rollbacks must
  take back exactly what the table takes back.  Checked by TLC and proved
  (`ImplementsIndexedStore`, `Refinement`).
- `FieldIndex` implements `FieldMap`, a function from documents to values: checked by
  TLC and proved (`Refinement`).

## 5. Proofs

`tlapm` checks every theorem to its leaves.  Assumptions are those that the modules
name (sentinels differ from values, bounds are numbers, sets of documents are finite).

- `AutoReindexProofs!Typing`: `Spec => []TypeOK`, for all liberties.
- `AutoReindexProofs!CoreInvariance`: `CarefulUse => (Spec => []CoreInv)`, where
  `CarefulUse` is `Liberties \subseteq {"use_failed"}` and no virtual fields, as in the
  run `AutoReindex_careful`.
- `AutoReindexProofs!IndexIsKept`, `NothingForgotten`, `HookHolds`: from it
  `IndexMatchesObjects`, `NoLostReindex` and `OutOfDateIsHooked`.
- `AutoReindexProofs!Refinement`: `ImplementsIndexedStore`, under `CarefulUse` and for a
  model with at least one indexed field: without one, an index shows nothing.
- `FieldIndexProofs`: `Typing`, `IndexCorrect` (`FwdMatchesRev`), `FormsFit`
  (`FormFits`), `CountIsRight` (`Counted`), `Refinement`; `SearchesAreRight`
  (`SearchesFind`) and `PagesAreRight` (`PagesAreParts`).
- `FieldIndexProofs!InOrderListLike`: `ListLikeInOrder`; `InOrderState`: `StateRight`; both for
  lists, caches and prefetches of any size.
- `UserAdminProofs!Accepted`: `AcceptedIffKnown`, for all regimes.
- `UserAdminProofs!Agreement`, `Logins`: `DirectoriesAgree` and `LoginsReachUsers`, which speak
  of a careful admin.
- `IdStoreProofs!LengthIsRight`: `LengthCounts`, for all liberties.
- `IdStoreProofs!NothingIsLost`: `Liberties = {} => (Spec => NothingLost)`.
- `ThreadsProofs!QueuesAreOptimized`: `OptimizedShape`; `QueueIsItsPairs`: `SamePairs`;
  both for all regimes.
- `ThreadsProofs!ProcessedIndexIsFresh`: `ProcessedIsFresh`, which speaks of an application
  without liberties.
- `ThreadsProofs!PoolConsistent`: `PoolIsConsistent`, for all regimes; `NeverShared`:
  `Exclusive`, which speaks of threads that do not disconnect.
- `OwnerStorageProofs!NoStaleCopies`: `CacheCoherent`.
- `TransformingStorageProofs!AlwaysReadable`, `AlwaysLoads`: `Readable` and `LoadsSucceed`,
  both under `Liberties = {}`.
- `TextIndexesProofs!PostingsMatch`: `PostingsMatchDocs`, under `keep_phrases = TRUE` (section
  6 shows what happens without); `WeightsMatch`: `WeightsMatchDocs`, for both options.
- `TextIndexesProofs!FoundOnceAlways`, `WeightsBracketedAlways`, `OrderedAlways`: `FoundOnce`,
  `WeightsBracketed` and `OrderedWhenCached` of `UnionSpec`, for all finite lists of documents,
  natural scores and sizes with `0 < order_violation <= order_size` and
  `2 * order_violation < cache_size`, as in the code.

`IndexMatchesObjects` is far from inductive: that a commit makes the index right
depends on the queue (`NoLostReindex`), that the queue is processed depends on the
hook (`OutOfDateIsHooked`), that a reindex reaches the right entry depends on the
uids the handles carry, and after an abort or a rollback all of this has to hold of
the state that comes back.  `CoreInv` is the conjunction of:

- `DiskInv`: the committed index is that of the committed objects, and an object not
  registered as changed agrees with its record;
- `MemoryInv`: in memory an entry is up to date *or queued*;
- `HookInv`: a hook belongs to a transaction that can commit;
- `LeftInv`: a queue that is not hooked in holds only what a failed transaction has left
  there, objects which that transaction could not change, and without it memory would be
  consistent all the same;
- `QueueInv`: a queued object was changed in this transaction (so that it is reset
  with the queue) or was left by a failed one, and its uid is the one under which it
  is stored;
- `SavepointInv`: the same of the state the savepoint keeps, with its copy of the queue.

`LeftInv` is what using a failed transaction costs: `QueueTM.register` only logs that the
transaction refused it, so the entry stays in the queue beyond the transaction and is
processed by a later one.  The proof has one step for each action and under it one for
each conjunct.  TLC checks `CoreInv` on the instance of `AutoReindex_careful` (963,584
states).

`Refinement` maps each action to one of `IndexedStore` or to a stutter.  A commit is
`Commit` since by `CommittedIndex` the index it writes is that of the objects (`Answers`);
`Abort` and `CommitConflict` are `Discard` by `DiskInv`, and a rollback brings the marked
table back by `SavepointInv`; setting an attribute changes the one record of a stored
object (no object is stored twice); `Reindex`, `Fetch`, `Deactivate` and what is set in a
failed transaction change no table.

The field index's proof has the two directions of the index and "the form fits
its documents" as inductive invariant, with lemmas on what `Insert` and `Without`
do to the cardinality.

The searches follow from these two invariants, but what a search returns is built key by
key and entry by entry, and the induction theorems of the library are out of the
prover's reach.  `Upwards` does without them: if something held of 1 and went from each
number to the next and yet failed somewhere below n, there would be a least number at
which it fails (`LeastOf`, from the well-foundedness of finite sets).  By it the sequences
that the keys' entries make one after the other are sorted and have each document once
(`KeysFound`), and so is what a scan picks from them (`YieldedSorted`).  Bounds are then a
question of which keys are taken (`RangeFound`).  A page is cut from the scan of the sort
index, its promise is about the result of the condition: two sequences of the same
documents, and `SameValues` shows by a pigeonhole argument (`NotSmaller`) that they have
the same value at each place.

The proof of `Accepted` carries the agreement of `data` and
`uids` for what is committed and for what is in memory together with which
persistent objects are dirty: either both directories are or neither.

`LengthCounts` of `IdStore` is inductive because it speaks of every transaction's base
and view.  The step that matters is the merge: a set of uids is counted in two parts
(`Split`), those the transaction changed, which come from its view, and the rest,
which come from the database; since the two changed different keys, the changes of
the Length add up to the change of the number of objects (`MergeCounts`).

`NothingLost` is a property of the step, so it needs to know the states in which a
commit can take place.  `StoreInv` adds to `LengthCounts`:

- `UidInv`: an object is under one uid, the same in a transaction's base, its view and
  the database, and what is gone from the view was to be removed;
- `OwnInv`: what a transaction has added no other transaction and no commit has seen;
- `HandInv`: the same of the object whose `add()` is under way;
- `HeldInv`: the `_p_uid` of the last added object leads to that object or to nothing.

From `UidInv` and the changes being of different keys, `MergeContents` shows that a
merge gives what `NothingLost` says; `MergeSameUids` and `MergeOnce` that `UidInv`
holds of the other transactions, whose base is older than what is now committed.
`HeldInv` is where `Liberties = {}` is used: it fails for a handle kept beyond its
transaction, as section 6 shows.  TLC checks `StoreInv` on the instance of
`IdStore_pass` (353,205 states).

`DirectoriesAgree` speaks of committed states, but an abort or a reload makes a
memory out of the database again, object by object.  `CarefulInv` therefore says of a
careful admin that the directories and records agree in the database and in memory
(`Agree`, the same predicate of either), that a user's record which is not dirty is the
same in both, and that nothing is dirty outside of a transaction.  TLC checks it on the
instance of `UserAdmin_pass` (1,786,392 states).

`PoolInv` of `ConnPool` adds to `PoolIsConsistent` that connections in the pool or open
were made (`StackInv`), that only a live thread of the child is between two steps of
`_root` (`PlaceInv`), and, as long as no thread disconnects, that a connection held by a
thread, by its watcher or by its dead thread-local is held by no other thread and is not
in the pool (`OwnInv`).  Neither property is inductive by itself: a connection that is in
the pool and in use goes to the next thread, and a destructor returns what its watcher
remembers without looking whether it is in the pool.  That it is not there is what
`OwnInv` knows without disconnects and what fails with them (section 6).  TLC checks
`PoolInv` on the instance of `ConnPool_pass` (146,804 states).

`CacheCoherent` of `OwnerStorage` needs to know what a client that is away has missed.
`CacheInv` says that the invalidation queue is in order and *complete* from its oldest
entry on (`QueueInv`), that what is under way to a client is newer than what it has seen
and in order (`InflightInv`), and that a client without a connection has no stale copy
but of records stored since it was last seen (`DownInv`): the client that reconnects
within the queue's reach is sent them, the other one drops its cache.  TLC checks it on
the instance of `OwnerStorage_pass` (2,495,102 states).

`Readable` of `TransformingStorage` depends on what each process has registered, and that
on how far it is in opening its one database.  `StorageInv` has `UseInv` (without
liberties a process uses one database, and one process a new one), `UserInv` (the classes
whose encrypters are made already have the key of the database; the default is that of
the main class while the database is being opened, and that of the root's cipher from
then on) and `DiskInv` (all records of a database have the cipher the root names).  TLC
checks it on the instance of `TransformingStorage_pass` (1,208,821 states).

Both text indexes are proved word by word.  `LuceneInv` says of every word that its record
holds (`Holds`) the postings computed from `_docwords`, with their number as Length;
`OkapiInv` that the record of the other index holds (`Weighs`) the occurrences, in a form
that fits their number.  A change of one document exchanges one posting (`OneChanged`):
the score that the index computes again from the old text is the one in the record, and no
other posting of the document is there, so the new score is not yet in the set and the
Length stays right (`WordChanged`, with a lemma for a posting that comes, goes or is
replaced).  `WeightChanged` is its counterpart; `GainedCounts` shows that `wordCount`
follows the records that come and go.  `MissingInv` keeps indexed documents and the ones
without a value apart.  TLC checks the three on the instance of `TextIndexes_pass`
(177,712 states).

`OptimizedShape` and `SamePairs` of `IndexQueue` speak of any list of entries and need as
invariant (`QueuesInv`) only that the queues are such lists: what `optimize` returns is a
fold, unrolled entry by entry (`ReduceSteps`) with `Upwards` in the place of an
induction.  `ProcessedIsFresh` speaks of a thread whose queue is empty.  At other moments
`StaleInv` says that what is stale is named by the queue, in which there is nothing but
REINDEX entries.  A modification adds what it names to both; processing to the end makes
fresh what the reduced queue names, which by `SamePairs` is all that the list named; and
when the processor raises, the reduced queue stays and names it still.  TLC checks
`StaleInv` on the instance of `IndexQueue_pass` (500,179 states).  The proof found a
comparison of attributes with the sentinel for all of them that TLC and the logic read
differently; `AllFieldsDiffers` states now what it rests on.

`ListLikeInOrder` and `StateRight` of `Sliceable` need to know, before each request, what
of the list is in the cache, and that differs with the use; `ListInv` has a part for each.
A pass in pages (`PageInv`) has nothing cached at or beyond where the iterator stands,
which is where the next page starts.  One loop that reads ahead (`LoopInv`, `Upcoming`)
finds that all it has read ahead is cached, or, when the cache is too small for that, that
the last elements read have driven the others out and are in the order they were read in
(`Recent`): then the loop always misses and starts the iterator again.  A cache as large
as the list never loses an element (`RestartInv`, `Filled`; its keys fit, `KeysFit`), so
that loops may be restarted.  In every request in order the iterator stands at the first
element that is not cached, or starts again, so keys and elements agree (`SliceRight`,
`TakeRight`).  The cache is the sequence of its pairs in order of use: `IsPut` says what a
request does to it (what was used later than the pair that goes stays where it was, seen
from the end), and `PutSteps` unrolls the fold of many requests, with `Upwards` in the
place of an induction.  Type correctness is proved for all uses, the ones out of order
too.  TLC checks `ListInv` on the instance of `Sliceable_pass` and, with no, one and eight elements, for
caches of 1 to 10 and prefetches of 1, 2, 3, 5, 9 and 12 (989,856 states with eight
elements and a prefetch of 1).

The three properties of `WeightedUnion` follow from `UnionInv`, which is proved of every step
(`UnionInvariance`).  `ReadInv` says of each list that it has been read in order, that the
bound holds of the rest (`Follows`), and that the cache has exactly what was read and not
given back (`Keeps`).  A document that is in no cache of a list is then below that list's
bound or was never in it, so its weight lies between minimum and maximum
(`CachedBracketed`); `OutInv` keeps this of the window and of what was given back, whose
documents were in the caches and are in no cache any more.  `EndInv` carries what is known
about the end: a window shorter than `order_violation` leaves at most one document of
the caches out (`NearTheEnd`), and an empty one means empty caches or trees that are read
to their ends.  `OrderInv` speaks of trees that fit into the caches: the first reading
empties them (`Drained`), the bounds are 0 from then on and all weights exact, and what is
given back weighs at least what is left (`Above`).  Beneath are sums and sorted
sequences.  A sum is a fold in the library; `SumSteps` shows that it is added up element by
element, and `SubsetsUp` replaces the induction over finite sets (of the subsets for which
something fails, there would be a smallest one).  A sorted sequence is defined by how many
documents come before each, so `RankedIs` is a counting argument: this function is
injective, and so it meets every place.  TLC checks `UnionInv` on the instance of
`TextSearch_pass` (369,127 states).

The proof corrected the model's claim about the end.  That at most one document is missing
when the generator ends held on all instances of six documents, but an empty window
also ends it when the caches stay empty because everything read next had been given back
before; how many documents are then unread is not bounded (section 6).  `FoundOnce`
names this case now, and `LongCase` is an instance of it.

`TextSearch` itself has no theorem, since it contains `TreeSearch`: its steps leave the
variables of the union alone, or are `Begin`, once, and then those of `UnionNext`, so
they are steps of `UnionSpec`.

Only model-checked: liveness (`Returned`, `AddFinishes`), which is beyond the prover, and
`QueryJson` and `TreeSearch`, whose operators are recursive on queries and on trees and
need induction over data.

## 6. Known limits

What the models show of the code beyond careful use.  One is recorded as a
finding, with a run of its own:

- **Removing a modified object** (`zerodb/db.py:196`): the queued REINDEX runs after
  the immediate unindex and makes an entry for a uid that is gone; queries that
  find it fail to load it.  Run `AutoReindex_remove_modified`.

The others can be reproduced by changing constants of the runs' configurations; TLC
then reports the property as violated.

| Change | Property | What happens |
|---|---|---|
| `AutoReindex_careful` with `Liberties = {"dead_handle"}` | `NoDanglingEntry` | `remove` leaves `_p_uid` in the object (`db.py:197`); modifying the removed object queues it again |
| `Liberties = {"none_values"}` | `IndexMatchesObjects` | a change from None does not notify (`models/__init__.py:78`) |
| `Liberties = {"lost_uid"}` | `IndexMatchesObjects` | a handle that became a ghost has no `_p_uid` and does not notify (`models/__init__.py:79`) |
| `Liberties = {"second_rollback"}` | `IndexMatchesObjects` | the savepoint's list has become the queue itself (`collective/indexing/transactions.py:18`); what was queued since the first rollback stays in it, and its objects have lost the uid with which they would be processed or a later reindex is missed |
| `Liberties = {}`, `Indexes = {a, vf}`, `Source <- VirtualField` | `IndexMatchesObjects` | an event names the attribute, not the virtual fields computed from it (`models/fields.py:12`: "Still, it is indexed") |
| `IndexQueue_pass` with `Regimes = {{}}`, `MaxQueue = 2`, `CHECK_DEADLOCK FALSE` | `ProcessesThisThread` | `processing` is shared by the threads (`collective/indexing/queue.py:15`): a thread is sent away, or its `remove` raises KeyError |
| `IndexQueue_pass` with `Regimes = {{"second_db"}}` | `OwnCatalogOnly`, `AlwaysFresh` | the DB made last has the utility "zerodb-indexer" (`db.py:338`), looks our objects up by class and uid in its own catalog and indexes them there |
| `Regimes = {{"switch_off"}}` | `AlwaysFresh` | what is modified while automatic reindexing is off is processed without effect |
| `Regimes = {{"index_ops"}}` | `AlwaysFresh` | an INDEX queued beside a REINDEX absorbs it (`collective/indexing/queue.py:100`), and the processor does nothing for an INDEX (`collective/indexing/indexer.py:13`): the modification is never indexed |
| `FieldIndex_pass` | `PreviousValueUnindexed` | `super(CatalogIndex, self).unindex_doc` (`catalog/indexes/field.py:116`) is the base class's and calls `remove` on an integer or a tuple |
| `FieldIndex_pass` | `SkipSkips` | `DbModel.query` with skip and without limit does not use skip (`db.py:218`, used only below line 221), "Offset to start the result iteration from" |
| `FieldIndex_pass` | `InMatchesList` | the list of `{"$in": [1, 2]}` is spread as arguments (`catalog/query_json.py:56`) of a constructor that takes one, and so are those of `$all`, `$nany` and `$nin`; `docs/source/index.rst:353` has "Matches any of the values specified in an array".  A list in a list compiles, and is what the other properties use |
| `FieldIndex_pass` | `NinAsDocumented` | `$nin` is `NotAll` (`catalog/query_json.py:32`) and leaves out the documents that "contain all elements specified in the query", which `docs/source/index.rst:361-362` says it matches; the code does what the name says there |
| `FieldIndex_pass` | `NotIsComplement` | documents without a value are found by the negation of `$eq`, `$range` and `$in` but not by that of `$gt` and the like (`catalog/query.py:82`) |
| `TextIndexes_pass` with `keep_phrases = FALSE`, `EmptyTexts = FALSE` | `OldWeightsFound` | only the different words are kept, so the old score of a repeated word cannot be recomputed (`catalog/indexes/text_lucene.py:189`); "This should never happen" |
| `TextIndexes_pass` | `NeverRaises` | `parallel_traversal()` without arguments for a text without words (`text_lucene.py:254`) |
| `TextIndexes_pass` with `EmptyTexts = FALSE` | `RecordsHaveDocs` | a reindex leaves the record of a word that lost its last document (`text_lucene.py:221`) |
| `TextIndexes_pass` | `TotalLengthMatches` | a reindex subtracts the old length of the document (`catalog/indexes/text_okapi.py:86`) and `index_doc` returns (`:69`) before it adds the new one: the mean length sinks, below zero in the end |
| `TextSearch_pass` with `Pythons = {2}` | `SearchNeverRaises` | a record without documents has no smallest key (`text_lucene.py:367`); the cache in which a new bound is looked for may be empty (`:467`) |
| `TextSearch_pass` with `Pythons = {3}` | `SearchNeverRaises` | also `cache_size / 2`, a float, given to `xrange` (`text_lucene.py:455`) |
| `TextSearch_pass` with `Pythons = {2}` | `NothingLost` | the search ends when the window is empty although one document is left in the caches (`text_lucene.py:418`); or although lists are not read to their ends, when everything read next had been given back before and the caches stay empty (`:387`, `:458`): with the sizes of the code, a search for which 665 documents match gives 660 |
| `TextSearch_pass` with `Pythons = {2}` | `NearlyOrdered` | the order is only looked at when the window is made, and not between all pairs (`text_lucene.py:78`: "We allow elements to be shifted by max_out_of_order = 3") |
| `IdStore_pass` | `EntryExists` | `_models` keeps the DbModel of a transaction that was aborted; its store does not exist (`db.py:449`), though `db[Model]` is to "return or create db entry for" it |
| `IdStore_pass` with `Liberties = {"kept_handle"}` | `NothingLost` | an object keeps the uid of an aborted transaction (`intid.py:69`); removing it removes another that has got the uid since |
| `IdStore_pass` | `AddAlwaysFinishes` | with every uid below `maxint` taken, the loop goes on for ever (`intid.py:43`) |
| `Sliceable_pass` with `Cases <- BoundedSlices` or `Cases <- OpenSlices` | `ListLike` | slices that start before or beyond what is cached (`util/iter.py:91`) |
| `Sliceable_pass` with `Cases <- RestartedLoops` | `ListLike` | a second loop over a `ListPrefetch` longer than its cache gives wrong elements: reading ahead finds the first of the elements cached, takes the next ones from the iterator and caches them under the keys of the first (`util/iter.py:67`, `count(start, step)`, zipped in line 89); with the sizes of the code, 20 and 1000, the second loop over a result of more than 1000 objects gives number 1000 in the place of number 988 |
| `Sliceable_pass` with `Cases <- PrefetchPages` | `ListLike` | reading ahead starts at `key.stop + 1` (`util/iter.py:164`): an element is skipped and the cache is shifted |
| `ConnPool_pass` with `PoolRegimes <- Disconnecting` | `Unshared` | the thread-local keeps a connection that the pool gives to another thread (`db.py:436`) |
| `PoolRegimes <- Disconnecting` | `AlwaysReturned` | `watch` does nothing for a thread that is watched (`util/thread_watcher.py:25`): the connection a thread opens after `disconnect` stays open when it dies, in no pool; `db.py:423` has "Should be closed when old thread-locals get garbage collected" |
| the same | `PooledOnce` | the destructor sets `opened` and closes (`db.py:408`) whether or not the connection was returned before; it is then in the pool twice, and two threads are given it |
| `PoolRegimes = {{"fork"}}` | `OwnProcess` | `__pid` is set before `_init_db` has run (`db.py:419`) |
| `PoolRegimes = {{"dies_in_txn"}}` | `AlwaysReturned` | closing a connection that joined a transaction raises in the destructor (`db.py:409`) |
| `UserAdmin_pass` with three users and `Regimes = {{"cert_only"}}` | `CertsOfUsers` | `User.certs` is changed in place without telling its persistent object (`permissions/base.py:146`); it is reloaded with the old certificates |
| three users, `Regimes = {{"failing_change"}}` | `CertsOfUsers` | a refused certificate leaves the user's old ones deleted (`base.py:165`) |
| three users, `Regimes = {{"same_name"}}` | `NamesFindUsers` | `add_user` replaces a name that is in use (`base.py:133`) |
| `TransformingStorage_pass` with `Liberties = {"share"}` | `Readable` | opening a second database replaces the encrypters of the first (`transform/encrypt_common.py:83`) |
| `Liberties = {"mix_zip"}` | `Readable` | a registered compressor is never unregistered (`transform/compress_common.py:40`) |
| `Liberties = {"race"}` | `LoadsSucceed` | two processes that both find a new database choose different ciphers (`storage/transforming.py:93`) |

## 7. External assumptions

- A ZODB connection sees a snapshot; changes are registered when a persistent object
  is modified; an abort invalidates changed objects that have a record; a savepoint
  stores changed objects aside and a rollback invalidates everything changed.
- A transaction that failed refuses `join` and accepts only an abort; hooks run
  before the two-phase commit; an exception in a hook leaves the transaction active.
- The server serialises transactions; ZEO's channel to one client is in order; on
  reconnection the client's cache is verified against the invalidation queue.
- AES-GCM is ideal: data decrypt only under the key and cipher they were encrypted
  with.  Compression is only the fact of being compressed.
- Concurrent changes of different keys of a BTree merge, those of one key conflict, a
  Length adds up; a commit may also conflict without such a cause (a bucket that is
  split), which is an abort.
- The pool is a stack of connections, which does not look whether one that is returned is
  there already; closing a joined connection raises, closing one whose `opened` is None
  does nothing.
- The library's query classes take a name of an index and one value, or two ends; their
  `negate`, `And` and `Or` look up and stop as zerodb's do; `All` is the lookup with `and`
  that `search` of the field index has (`catalog/indexes/field.py:176`), if there is one.

## 8. Not modelled

- The lexicon's word ids under concurrent transactions; the scoring of the Okapi index
  and its search for phrases, which are library code.
- `optimize` of queries, which is the library's.
- `client_storage`, which passes its arguments on, and the start and stop of a server
  process in `forker.py` and `testing.py`.
- `loadSerial` of `ownerstorage.py` refers to an undefined name and cannot run.
- Key derivation, ciphers, compression, user statistics, tree families, debugging
  helpers, process start-up: pure functions, class attributes or I/O.
- `facet.py`, `keyword.py`, `path.py`, `path2.py`: imports of library classes.

## 9. Plan

Done, in this order: `AutoReindex` with `IndexedStore` (the centre of the client),
its invariant and proofs; `IndexQueue`; `FieldIndex` with `FieldMap`, `FieldSearch` and proofs;
`UserAdmin`; `ConnPool`; `Sliceable`; `LuceneIndex`; `OwnerStorage`;
`TransformingStorage`; `IdStore` with its proofs; `TreeSearch`, `WeightedUnion` and
`TextSearch`; `OkapiIndex` and `TextIndexes`; `QueryJson`; several DBs and the switch in
`IndexQueue`.

Next, models: the lexicon under concurrent transactions, beside `IdStore`, which it
resembles.

Next, proofs: what is left to TLC is beyond the provers (section 5).  `TreeSearch` would
come first with a prover that has induction over data.
