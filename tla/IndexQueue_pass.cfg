CONSTANTS
    Threads = {t1, t2}
    Objs = {o1, o2}
    Attrs = {a, b}
    AllFields = AllFields
    MixedArgs <- AllAttrs
    MaxQueue = 3
    Regimes = {{}, {"index_ops"}, {"switch_off"}, {"second_db"}}
SPECIFICATION Spec
SYMMETRY ThreadSymmetry
INVARIANTS ProcessedIsFresh OptimizedShape SamePairs
