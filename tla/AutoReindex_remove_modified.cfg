CONSTANTS
    Objs = {o1, o2}
    Uids = {1, 2}
    Attrs = {a}
    Vals = {v1, v2}
    None = None
    NoUid = NoUid
    NoObj = NoObj
    NoEntry = NoEntry
    Indexes = {a}
    Source <- PlainFields
    Liberties = {"remove_modified"}
SPECIFICATION Spec
INVARIANT NoDanglingEntry
