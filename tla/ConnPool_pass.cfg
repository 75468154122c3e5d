CONSTANTS
    Threads = {t1, t2, t3}
    MaxConns = 3
    Nil = Nil
    Main = t1
    PoolRegimes <- AllRegimes
SPECIFICATION PoolSpec
INVARIANTS Exclusive PoolIsConsistent
PROPERTY Returned
CHECK_DEADLOCK FALSE
