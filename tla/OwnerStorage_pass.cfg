CONSTANTS
    Oids = {0, 2, 3, 4}
    Zero = 0
    Users = {2, 3}
    Root = 2
    s1 = s1
    s2 = s2
    s3 = s3
    Sessions = {s1, s2, s3}
    UserOf <- TwoAndRoot
    NoOwner = NoOwner
    invq_bound = 2
    MaxTid = 3
SPECIFICATION Spec
SYMMETRY SameUser
INVARIANTS CacheCoherent
