CONSTANTS
    gcm = gcm
    v0 = v0
    d1 = d1
    d2 = d2
    Procs = {p1, p2}
    Dbs = {d1, d2}
    Oids = {o}
    Root = Root
    Ciphers = {gcm, v0}
    Encrypters <- NewOldBoth
    KeyOf <- OwnKeys
    ZipOf <- OneZipped
    None = None
    Liberties = {}
SPECIFICATION Spec
INVARIANTS Readable LoadsSucceed
