CONSTANTS
    DocIds = {1, 2, 3, 4, 5, 6, 7, 8, 9, 10, 11, 12, 13}
    Lists = {1, 2}
    CacheSize = 4
    OrderSize = 3
    OrderViolation = 1
    Depth = 10
    Pythons = {2, 3}
    Cases <- AllCases
SPECIFICATION Spec
INVARIANTS BulkFetched FoundOnce WeightsBracketed OrderedWhenCached
CHECK_DEADLOCK FALSE
