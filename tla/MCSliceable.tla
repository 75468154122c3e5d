---------------------------- MODULE MCSliceable ----------------------------
(* Small instances of Sliceable for TLC. *)
EXTENDS Sliceable

OfClass(ahead, cache, uses) == [ahead |-> ahead, cache |-> cache, uses |-> uses]

\* Two caches smaller than the list, and one that holds it.
Small == 4
Medium == 6
Large == 9
Sizes == {Small, Medium, Large}

\* The orderly uses of both classes, and pages and open slices of both.
AllCases ==
    {OfClass(0, Small, {"item"}), OfClass(0, Small, {"page", "iterate"}),
     OfClass(Prefetch, Small, {"loop"}), OfClass(Prefetch, Large, {"iterate"})} \cup
    {OfClass(a, Small, {"page", "open_slice"}) : a \in {0, Prefetch}}

\* Slices that start anywhere, of a plain Sliceable, with and without an end.
BoundedSlices == {OfClass(0, Small, {"slice"})}
OpenSlices == {OfClass(0, Small, {"open_slice"})}

\* Pages read from a ListPrefetch, and loops that find only a part cached.
PrefetchPages == {OfClass(Prefetch, Large, {"page"})}
RestartedLoops == {OfClass(Prefetch, Medium, {"iterate"})}
=============================================================================
