------------------------ MODULE TransformingStorage ------------------------
(***************************************************************************)
(* How records are encrypted and compressed: the registry of encrypters    *)
(* and compressors that all databases of a process share, and the storage  *)
(* that transforms what it stores and loads.                               *)
(*                                                                         *)
(* Only the root record names the cipher it is encrypted with.  All other  *)
(* records are marked as encrypted and no more, so whoever reads them must *)
(* have made the root's cipher the default of its process.  A record is    *)
(* represented by what was done to it.                                     *)
(***************************************************************************)
EXTENDS Naturals, Sequences

CONSTANTS
    Procs,
    Dbs,
    Oids,        \* records besides the root
    Root,
    Ciphers,     \* encrypter classes
    Encrypters,  \* values of DB.encrypter: the default class comes first
    KeyOf,       \* the key of each database
    ZipOf,       \* whether each database's DB.compressor is set
    None,
    Liberties    \* "share": a process opens a database while it has another one
                 \* open; "mix_zip": it opens one without a compressor after one
                 \* that has one; "race": two processes open a new database at
                 \* the same time

ASSUME RootIsNone == Root \notin Oids
ASSUME NoneDiffers == None \notin Ciphers
ASSUME EncryptersType == Encrypters \subseteq Seq(Ciphers) \ {<<>>}
ASSUME ZipOfType == ZipOf \in [Dbs -> BOOLEAN]
ASSUME StepsDiffer == {"closed", "crypto", "open"} \cap Ciphers = {}
ASSUME LibertiesKnown == Liberties \subseteq {"share", "mix_zip", "race"}

VARIABLES
    classes,   \* registered IEncrypterClass utilities of each process
    main,      \* the unnamed one among them
    named,     \* registered IEncrypter utilities: the key of each cipher
    default,   \* the unnamed IEncrypter utility
    zlib,      \* whether a compressor is registered
    handle,    \* how far each process is in opening each database
    disk       \* the records of each database, None: not stored yet

registry == <<classes, main, named, default, zlib>>
vars == <<registry, handle, disk>>

Keys == {KeyOf[d] : d \in Dbs}

\* An encrypter object; "listed" when it is also the one registered under the
\* name of its cipher.
Encrypter == [cipher : Ciphers, key : Keys, listed : BOOLEAN]

ASSUME NoneIsNothing == None \notin Keys \cup Encrypter

\* The name that a record which is only marked as encrypted gives
Unnamed == ""

\* sig: what the record says of its cipher, None: not encrypted
Record == [sig : Ciphers \cup {Unnamed, None}, cipher : Ciphers \cup {None},
           key : Keys \cup {None}, zip : BOOLEAN]

\* The root of a new database comes from the server, which has no keys.
Plain == [sig |-> None, cipher |-> None, key |-> None, zip |-> FALSE]

Closed == [pc |-> "closed", todo |-> {}]

TypeOK ==
    /\ classes \in [Procs -> SUBSET Ciphers]
    /\ main \in [Procs -> Ciphers \cup {None}]
    /\ named \in [Procs -> [Ciphers -> Keys \cup {None}]]
    /\ default \in [Procs -> Encrypter \cup {None}]
    /\ zlib \in [Procs -> BOOLEAN]
    /\ handle \in [Procs -> [Dbs -> [pc : {"closed", "crypto", "open"} \cup Ciphers,
                                     todo : SUBSET Ciphers]]]
    /\ disk \in [Dbs -> [Oids \cup {Root} -> Record \cup {None}]]
    /\ \A p \in Procs, d \in Dbs :
            handle[p][d].pc \in {"closed", "open"} => handle[p][d].todo = {}
    /\ \A p \in Procs : default[p] # None /\ default[p].listed =>
            default[p].key = named[p][default[p].cipher]

Init ==
    /\ classes = [p \in Procs |-> {}] /\ main = [p \in Procs |-> None]
    /\ named = [p \in Procs |-> [c \in Ciphers |-> None]]
    /\ default = [p \in Procs |-> None]
    /\ zlib = [p \in Procs |-> FALSE]
    /\ handle = [p \in Procs |-> [d \in Dbs |-> Closed]]
    /\ disk = [d \in Dbs |-> [o \in Oids \cup {Root} |-> IF o = Root THEN Plain ELSE None]]

\* The root is still the one that the server made.
IsNew(d) == disk[d][Root] = Plain

Uses(p, d) == handle[p][d].pc # "closed"

-----------------------------------------------------------------------------
(* What the registry does to a record. *)

\* getUtility(IEncrypter, sig): the default for the empty name
Utility(p, sig) ==
    IF sig = Unnamed THEN default[p]
    ELSE IF named[p][sig] = None THEN None
    ELSE [cipher |-> sig, key |-> named[p][sig], listed |-> TRUE]

\* AES-GCM authenticates: a wrong key or another cipher raises WrongKeyError.
Authentic(e, r) == r.cipher = e.cipher /\ r.key = e.key

\* Data that are not marked as encrypted are taken as they are.
Decrypts(p, r) ==
    r.sig # None => Utility(p, r.sig) # None /\ Authentic(Utility(p, r.sig), r)

\* The compressor must be registered by its name.
Decompresses(p, r) == r.zip => zlib[p]

\* TransformingStorage.loadBefore: decrypt, then decompress
Loads(p, r) == Decrypts(p, r) /\ Decompresses(p, r)

\* CommonCompressor.compress: data that it would not shorten stay as they are.
Zips(p, os) == IF zlib[p] THEN SUBSET os ELSE {{}}

\* Mutant of Encrypted: the root is marked like any other record.
EncryptedAlike(p, o) ==
    IF default[p] = None THEN Plain
    ELSE [Plain EXCEPT !.sig = Unnamed, !.cipher = default[p].cipher, !.key = default[p].key]

\* encrypt: by the default, under its name for the root only; without a default
\* the data stay as they are.
Encrypted(p, o) ==
    IF default[p] = None THEN Plain
    ELSE [Plain EXCEPT !.sig = IF o = Root THEN default[p].cipher ELSE Unnamed,
                       !.cipher = default[p].cipher, !.key = default[p].key]

-----------------------------------------------------------------------------
(* Opening a database. *)

\* _init_default_crypto: the classes of DB.encrypter, the first as the default.
RegisterClasses(p, d, es) ==
    /\ ~Uses(p, d)
    /\ "share" \in Liberties \/ \A e \in Dbs : ~Uses(p, e)
    /\ "mix_zip" \in Liberties \/ (zlib[p] => ZipOf[d])
    /\ "race" \in Liberties \/ (IsNew(d) => \A q \in Procs : ~Uses(q, d))
    /\ classes' = [classes EXCEPT ![p] = @ \cup {es[k] : k \in DOMAIN es}]
    /\ main' = [main EXCEPT ![p] = es[1]]
    /\ zlib' = [zlib EXCEPT ![p] = @ \/ ZipOf[d]]
    /\ handle' = [handle EXCEPT ![p][d] = [pc |-> "crypto", todo |-> classes'[p]]]
    /\ UNCHANGED <<named, default, disk>>

\* init_crypto, for each class in turn: the encrypter known by its name goes
\* away as the default ...
UnregisterUtility(p, d, c) ==
    /\ handle[p][d].pc = "crypto" /\ c \in handle[p][d].todo
    /\ handle' = [handle EXCEPT ![p][d] = [pc |-> c, todo |-> @.todo \ {c}]]
    /\ default' = [default EXCEPT ![p] =
            IF @ # None /\ @.cipher = c /\ @.listed THEN None ELSE @]
    /\ UNCHANGED <<classes, main, named, zlib, disk>>

\* ... and a new one with the key of this database takes the name, and the
\* default when it is of the default class.
RegisterUtility(p, d) ==
    LET c == handle[p][d].pc IN
    /\ c \in Ciphers
    /\ named' = [named EXCEPT ![p][c] = KeyOf[d]]
    /\ default' = [default EXCEPT ![p] =
            IF c = main[p] THEN [cipher |-> c, key |-> KeyOf[d], listed |-> TRUE]
            ELSE IF @ # None /\ @.cipher = c THEN [@ EXCEPT !.listed = FALSE] ELSE @]
    /\ handle' = [handle EXCEPT ![p][d].pc = "crypto"]
    /\ UNCHANGED <<classes, main, zlib, disk>>

-----------------------------------------------------------------------------
(* The storage. *)

\* Mutant of OpenStorage: the default is not set.
OpenStorageKeepsDefault(p, d) ==
    /\ handle[p][d] = [pc |-> "crypto", todo |-> {}]
    /\ handle' = [handle EXCEPT ![p][d].pc = "open"]
    /\ UNCHANGED <<registry, disk>>

\* TransformingStorage.__init__: the cipher that the root names becomes the
\* default; one that is not registered by that name raises.
OpenStorage(p, d) ==
    LET sig == disk[d][Root].sig IN
    /\ handle[p][d] = [pc |-> "crypto", todo |-> {}]
    /\ \/ /\ sig = None
          /\ handle' = [handle EXCEPT ![p][d].pc = "open"]
          /\ UNCHANGED default
       \/ /\ sig \in Ciphers /\ named[p][sig] # None
          /\ handle' = [handle EXCEPT ![p][d].pc = "open"]
          /\ default' = [default EXCEPT ![p] =
                [cipher |-> sig, key |-> named[p][sig], listed |-> TRUE]]
       \/ /\ sig \in Ciphers /\ named[p][sig] = None
          /\ handle' = [handle EXCEPT ![p][d] = Closed]
          /\ UNCHANGED default
    /\ UNCHANGED <<classes, main, named, zlib, disk>>

\* A commit stores records; the first objects are linked from the root.
Store(p, d, os) ==
    /\ handle[p][d].pc = "open"
    /\ os # {} /\ (IsNew(d) => Root \in os)
    /\ \E zipped \in Zips(p, os) :
        disk' = [disk EXCEPT ![d] = [o \in Oids \cup {Root} |->
                    IF o \in os THEN [Encrypted(p, o) EXCEPT !.zip = o \in zipped]
                    ELSE @[o]]]
    /\ UNCHANGED <<registry, handle>>

\* DB.disconnect, after which the application drops the DB
Disconnect(p, d) ==
    /\ handle[p][d].pc = "open"
    /\ handle' = [handle EXCEPT ![p][d] = Closed]
    /\ UNCHANGED <<registry, disk>>

\* The process ends, or is killed, at any point; another takes its place.
Exit(p) ==
    /\ classes[p] # {}
    /\ classes' = [classes EXCEPT ![p] = {}] /\ main' = [main EXCEPT ![p] = None]
    /\ named' = [named EXCEPT ![p] = [c \in Ciphers |-> None]]
    /\ default' = [default EXCEPT ![p] = None]
    /\ zlib' = [zlib EXCEPT ![p] = FALSE]
    /\ handle' = [handle EXCEPT ![p] = [d \in Dbs |-> Closed]]
    /\ UNCHANGED <<disk>>

Next ==
    \E p \in Procs :
        \/ Exit(p)
        \/ \E d \in Dbs :
            \/ \E es \in Encrypters : RegisterClasses(p, d, es)
            \/ \E c \in Ciphers : UnregisterUtility(p, d, c)
            \/ RegisterUtility(p, d) \/ OpenStorage(p, d) \/ Disconnect(p, d)
            \/ \E os \in SUBSET (Oids \cup {Root}) : Store(p, d, os)

Spec == Init /\ [][Next]_vars

-----------------------------------------------------------------------------
(* Properties. *)

\* The cipher and key that TransformingStorage.__init__ makes the default in a
\* new process which opens d with the encrypter classes es.
DefaultFor(d, es) ==
    [cipher |-> IF disk[d][Root].sig = None THEN es[1] ELSE disk[d][Root].sig,
     key |-> KeyOf[d]]

\* Whatever encrypter classes are used, in whatever order databases are opened,
\* stored to, closed and killed: a new process that knows the cipher of the
\* root reads every record with the key of the database ("Test whether we can
\* still read the DB"), and needs a compressor only where the database has one.
Readable ==
    \A d \in Dbs, o \in Oids \cup {Root}, es \in Encrypters :
        LET r == disk[d][o]
            e == DefaultFor(d, es) IN
        r # None /\ r.sig # None =>
            r.cipher = e.cipher /\ r.key = e.key /\ (r.zip => ZipOf[d])

\* An open database can load all of its records, those that another process
\* has stored since included (TransformingStorage.loadBefore).
LoadsSucceed ==
    /\ TypeOK
    /\ \A p \in Procs, d \in Dbs, o \in Oids \cup {Root} :
        handle[p][d].pc = "open" /\ disk[d][o] # None => Loads(p, disk[d][o])
=============================================================================
