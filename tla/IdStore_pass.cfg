CONSTANTS
    Clients = {c1, c2}
    Objs = {o1, o2, o3}
    NoObj = NoObj
    maxint = 2
    NoId = NoId
    NoTxn = NoTxn
    Liberties = {}
SPECIFICATION Spec
INVARIANTS LengthCounts
PROPERTIES NothingLost AddFinishes
