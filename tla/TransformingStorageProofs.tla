---------------------- MODULE TransformingStorageProofs ----------------------
(***************************************************************************)
(* For any processes, databases, keys and ciphers, in whatever order       *)
(* databases are opened, stored to, closed and killed: every record can be *)
(* read by a new process, and every record of an open database can be      *)
(* loaded, as long as an application takes no liberties.                   *)
(***************************************************************************)
EXTENDS TransformingStorage, TLAPS

\* A process has one database open at a time, and a new database is used by one
\* process.
UseInv ==
    /\ \A p \in Procs : \A d, e \in Dbs : Uses(p, d) /\ Uses(p, e) => d = e
    /\ \A p, q \in Procs : \A d \in Dbs : IsNew(d) /\ Uses(p, d) /\ Uses(q, d) => p = q

\* The classes whose encrypters p has still to make, or is making, for d
Undone(p, d) == handle[p][d].todo \cup {handle[p][d].pc}

\* Encrypters are those of registered classes.
ClassInv == \A p \in Procs, c \in Ciphers : named[p][c] # None => c \in classes[p]

\* Of a process that uses d, the encrypters that are made have the key of d; the
\* default is the encrypter of the main class and then that of the root.
UserInv(p, d) ==
    Uses(p, d) =>
        /\ main[p] \in classes[p] /\ Undone(p, d) \cap Ciphers \subseteq classes[p]
        /\ \A c \in classes[p] \ Undone(p, d) : named[p][c] = KeyOf[d]
        /\ zlib[p] <=> ZipOf[d]
        /\ handle[p][d].pc # "open" /\ main[p] \notin Undone(p, d) =>
            default[p] = [cipher |-> main[p], key |-> KeyOf[d], listed |-> TRUE]
        /\ handle[p][d].pc = "open" =>
            /\ default[p] # None /\ default[p].key = KeyOf[d]
            /\ default[p].cipher \in classes[p]
            /\ ~IsNew(d) => default[p].cipher = disk[d][Root].sig

UsersInv == \A p \in Procs, d \in Dbs : UserInv(p, d)

\* All records of a database have the cipher that the root names.
Fits(d, r) ==
    /\ r.cipher = disk[d][Root].sig /\ r.key = KeyOf[d]
    /\ r.sig \in {Unnamed, disk[d][Root].sig} /\ (r.zip => ZipOf[d])

DiskInv ==
    \A d \in Dbs :
        /\ IsNew(d) => \A o \in Oids : disk[d][o] = None
        /\ ~IsNew(d) => /\ disk[d][Root].sig \in Ciphers
                        /\ \A o \in Oids \cup {Root} : disk[d][o] # None => Fits(d, disk[d][o])

StorageInv == TypeOK /\ UseInv /\ ClassInv /\ UsersInv /\ DiskInv

-----------------------------------------------------------------------------
(* Steps of one process. *)

Handle == [pc : {"closed", "crypto", "open"} \cup Ciphers, todo : SUBSET Ciphers]

\* One handle changes, the others do not.
LEMMA HandleSet ==
    ASSUME handle \in [Procs -> [Dbs -> Handle]], NEW p \in Procs, NEW d \in Dbs,
           NEW h \in Handle, handle' = [handle EXCEPT ![p][d] = h]
    PROVE  /\ handle' \in [Procs -> [Dbs -> Handle]]
           /\ handle'[p][d] = h
           /\ \A q \in Procs, e \in Dbs : q # p \/ e # d => handle'[q][e] = handle[q][e]
BY Zenon

\* Only in the middle of an opening is there anything to do.
LEMMA StepDone ==
    ASSUME TypeOK, NEW p \in Procs, NEW d \in Dbs,
           handle'[p][d].pc \in {"closed", "open"} => handle'[p][d].todo = {},
           \A q \in Procs, e \in Dbs : q # p \/ e # d => handle'[q][e] = handle[q][e]
    PROVE  \A q \in Procs, e \in Dbs :
                handle'[q][e].pc \in {"closed", "open"} => handle'[q][e].todo = {}
<1> TAKE q \in Procs, e \in Dbs
<1>1. CASE q = p /\ e = d
  BY <1>1
<1>2. CASE q # p \/ e # d
  <2>1. handle'[q][e] = handle[q][e]
    BY <1>2
  <2>2. handle[q][e].pc \in {"closed", "open"} => handle[q][e].todo = {}
    BY DEF TypeOK
  <2> QED
    BY <2>1, <2>2, Zenon
<1> QED
  BY <1>1, <1>2

\* A use of a database goes on as long as its process, and whether the database
\* is new, do not change.
LEMMA OthersKeep ==
    ASSUME NEW q \in Procs, NEW e \in Dbs, UserInv(q, e),
           classes'[q] = classes[q], main'[q] = main[q], named'[q] = named[q],
           zlib'[q] = zlib[q], default'[q] = default[q], handle'[q][e] = handle[q][e],
           ~IsNew(e)' => ~IsNew(e) /\ disk'[e][Root].sig = disk[e][Root].sig
    PROVE  UserInv(q, e)'
BY Zenon DEF UserInv, Uses, Undone

\* Where disk does not change, neither does what is said of it.
LEMMA DiskStays == ASSUME DiskInv, UNCHANGED disk PROVE DiskInv'
<1>1. \A d \in Dbs : IsNew(d)' <=> IsNew(d)
  BY DEF IsNew
<1>2. \A d, r : Fits(d, r)' <=> Fits(d, r)
  BY DEF Fits
<1> QED
  BY <1>1, <1>2 DEF DiskInv

\* With no liberties a process that uses d uses no other, and a step in it leaves
\* the uses of others alone.
LEMMA OneUse ==
    ASSUME UseInv, UsersInv, NEW p \in Procs, NEW d \in Dbs,
           Uses(p, d) \/ \A e \in Dbs : ~Uses(p, e),
           \A q \in Procs, e \in Dbs : q # p \/ e # d => handle'[q][e] = handle[q][e],
           \A q \in Procs \ {p} : /\ classes'[q] = classes[q] /\ main'[q] = main[q]
                                  /\ named'[q] = named[q] /\ zlib'[q] = zlib[q]
                                  /\ default'[q] = default[q],
           UNCHANGED disk,
           IsNew(d) => \A q \in Procs \ {p} : ~Uses(q, d),
           UserInv(p, d)'
    PROVE  UseInv' /\ UsersInv'
<1>1. \A e \in Dbs : IsNew(e)' <=> IsNew(e)
  BY DEF IsNew
<1>2. \A q \in Procs, e \in Dbs : q # p \/ e # d => (Uses(q, e)' <=> Uses(q, e))
  BY DEF Uses
<1>3. \A e \in Dbs \ {d} : ~Uses(p, e) /\ ~Uses(p, e)'
  BY <1>2 DEF UseInv
<1>4. UseInv'
  <2>1. ASSUME NEW q \in Procs, NEW e \in Dbs, NEW f \in Dbs, Uses(q, e)', Uses(q, f)'
        PROVE  e = f
    BY <1>2, <1>3, <2>1 DEF UseInv
  <2>2. ASSUME NEW q \in Procs, NEW r \in Procs, NEW e \in Dbs, IsNew(e), Uses(q, e)', Uses(r, e)'
        PROVE  q = r
    <3>1. CASE e = d
      BY <1>2, <2>2, <3>1
    <3>2. CASE e # d
      BY <1>2, <2>2, <3>2 DEF UseInv
    <3> QED
      BY <3>1, <3>2
  <2> QED
    BY <1>1, <2>1, <2>2 DEF UseInv
<1>5. ASSUME NEW q \in Procs, NEW e \in Dbs PROVE UserInv(q, e)'
  <2>1. CASE q = p /\ e = d
    BY <2>1
  <2>2. CASE q = p /\ e # d
    BY <1>3, <2>2 DEF UserInv
  <2>3. CASE q # p
    BY <1>1, <2>3, OthersKeep DEF UsersInv
  <2> QED
    BY <2>1, <2>2, <2>3
<1> QED
  BY <1>4, <1>5 DEF UsersInv
-----------------------------------------------------------------------------
(* The invariant, one lemma per action. *)

LEMMA InitStorage == Init => StorageInv
<1> SUFFICES ASSUME Init PROVE StorageInv
  OBVIOUS
<1>1. \A p \in Procs, d \in Dbs : handle[p][d] = Closed /\ ~Uses(p, d)
  BY DEF Init, Uses, Closed
<1>2. \A d \in Dbs : disk[d] = [o \in Oids \cup {Root} |-> IF o = Root THEN Plain ELSE None]
  BY DEF Init
<1>3. TypeOK
  <2>1. Plain \in Record
    BY DEF Plain, Record
  <2>2. Closed \in Handle
    BY DEF Closed, Handle
  <2>3. disk \in [Dbs -> [Oids \cup {Root} -> Record \cup {None}]]
    BY <2>1 DEF Init
  <2>4. handle \in [Procs -> [Dbs -> Handle]]
    BY <2>2 DEF Init
  <2>5. \A p \in Procs, d \in Dbs : handle[p][d].todo = {}
    BY <1>1 DEF Closed
  <2> QED
    BY <2>3, <2>4, <2>5 DEF Init, TypeOK, Handle
<1>4. UseInv /\ UsersInv /\ ClassInv
  BY <1>1 DEF Init, UseInv, UsersInv, UserInv, ClassInv
<1>5. DiskInv
  <2>1. \A d \in Dbs : IsNew(d) /\ \A o \in Oids : disk[d][o] = None
    BY <1>2, RootIsNone DEF IsNew
  <2> QED
    BY <2>1 DEF DiskInv
<1> QED
  BY <1>3, <1>4, <1>5 DEF StorageInv

LEMMA RegisterClassesKeeps ==
    ASSUME StorageInv, Liberties = {}, NEW p \in Procs, NEW d \in Dbs, NEW es \in Encrypters,
           RegisterClasses(p, d, es)
    PROVE  StorageInv'
<1> USE DEF StorageInv
<1> DEFINE new == {es[k] : k \in DOMAIN es}
           h == [pc |-> "crypto", todo |-> classes'[p]]
<1>1. /\ classes' = [classes EXCEPT ![p] = @ \cup new] /\ main' = [main EXCEPT ![p] = es[1]]
      /\ zlib' = [zlib EXCEPT ![p] = @ \/ ZipOf[d]]
      /\ handle' = [handle EXCEPT ![p][d] = h]
      /\ UNCHANGED <<named, default, disk>>
      /\ \A e \in Dbs : ~Uses(p, e)
      /\ zlib[p] => ZipOf[d]
      /\ IsNew(d) => \A q \in Procs : ~Uses(q, d)
  BY DEF RegisterClasses
<1>2. es[1] \in new /\ new \subseteq Ciphers
  <2>1. es \in Seq(Ciphers) /\ es # <<>>
    BY EncryptersType
  <2> QED
    BY <2>1
<1> HIDE DEF new
<1>3. /\ classes'[p] = classes[p] \cup new /\ main'[p] = es[1] /\ classes'[p] \subseteq Ciphers
      /\ \A q \in Procs \ {p} : classes'[q] = classes[q] /\ main'[q] = main[q] /\ zlib'[q] = zlib[q]
  BY <1>1, <1>2 DEF TypeOK
<1>4. h \in Handle /\ handle \in [Procs -> [Dbs -> Handle]]
  BY <1>3 DEF Handle, TypeOK
<1>5. /\ handle' \in [Procs -> [Dbs -> Handle]] /\ handle'[p][d] = h
      /\ \A q \in Procs, e \in Dbs : q # p \/ e # d => handle'[q][e] = handle[q][e]
  <2> HIDE DEF h
  <2> QED
    BY <1>1, <1>4, HandleSet
<1>6. zlib' \in [Procs -> BOOLEAN] /\ (zlib'[p] <=> ZipOf[d])
  BY <1>1, ZipOfType DEF TypeOK
<1>7. TypeOK'
  <2>1. classes' \in [Procs -> SUBSET Ciphers] /\ main' \in [Procs -> Ciphers \cup {None}]
    BY <1>1, <1>2 DEF TypeOK
  <2>2. \A q \in Procs, e \in Dbs :
            handle'[q][e].pc \in {"closed", "open"} => handle'[q][e].todo = {}
    BY <1>5, StepDone
  <2> QED
    BY <1>1, <1>5, <1>6, <2>1, <2>2 DEF TypeOK, Handle
<1>8. UserInv(p, d)'
  <2>1. Undone(p, d)' = classes'[p] \cup {"crypto"} /\ handle'[p][d].pc = "crypto"
    BY <1>5 DEF Undone
  <2> QED
    BY <1>2, <1>3, <1>6, <2>1, StepsDiffer DEF UserInv
<1>9. UseInv' /\ UsersInv'
  BY <1>1, <1>3, <1>5, <1>8, OneUse
<1>10. ClassInv'
  BY <1>1, <1>3 DEF ClassInv
<1>11. DiskInv'
  BY <1>1, DiskStays
<1> QED
  BY <1>7, <1>9, <1>10, <1>11
LEMMA UnregisterUtilityKeeps ==
    ASSUME StorageInv, Liberties = {}, NEW p \in Procs, NEW d \in Dbs, NEW c \in Ciphers,
           UnregisterUtility(p, d, c)
    PROVE  StorageInv'
<1> USE DEF StorageInv
<1> DEFINE h == [pc |-> c, todo |-> handle[p][d].todo \ {c}]
<1>1. /\ handle[p][d].pc = "crypto" /\ c \in handle[p][d].todo
      /\ handle' = [handle EXCEPT ![p][d] = h]
      /\ default' = [default EXCEPT ![p] =
              IF @ # None /\ @.cipher = c /\ @.listed THEN None ELSE @]
      /\ UNCHANGED <<classes, main, named, zlib, disk>>
  BY DEF UnregisterUtility
<1>2. h \in Handle /\ handle \in [Procs -> [Dbs -> Handle]]
  BY DEF Handle, TypeOK
<1>3. /\ handle' \in [Procs -> [Dbs -> Handle]] /\ handle'[p][d] = h
      /\ \A q \in Procs, e \in Dbs : q # p \/ e # d => handle'[q][e] = handle[q][e]
  <2> HIDE DEF h
  <2> QED
    BY <1>1, <1>2, HandleSet
<1>4. c \notin {"closed", "crypto", "open"}
  BY StepsDiffer
<1>5. /\ \A q \in Procs \ {p} : default'[q] = default[q]
      /\ default'[p] = IF default[p] # None /\ default[p].cipher = c /\ default[p].listed
                       THEN None ELSE default[p]
      /\ default' \in [Procs -> Encrypter \cup {None}]
  BY <1>1 DEF TypeOK
<1>6. TypeOK'
  <2>1. \A q \in Procs, e \in Dbs :
            handle'[q][e].pc \in {"closed", "open"} => handle'[q][e].todo = {}
    BY <1>3, <1>4, StepDone
  <2>2. \A q \in Procs : default'[q] # None /\ default'[q].listed =>
            default'[q].key = named'[q][default'[q].cipher]
    <3>1. \A q \in Procs : default'[q] \in {None, default[q]} /\ named'[q] = named[q]
      BY <1>1, <1>5
    <3>2. \A q \in Procs : default[q] # None /\ default[q].listed =>
              default[q].key = named[q][default[q].cipher]
      BY DEF TypeOK
    <3> QED
      BY <3>1, <3>2, Zenon
  <2> QED
    <3> HIDE DEF h
    <3>1. /\ classes' \in [Procs -> SUBSET Ciphers] /\ main' \in [Procs -> Ciphers \cup {None}]
          /\ named' \in [Procs -> [Ciphers -> Keys \cup {None}]] /\ zlib' \in [Procs -> BOOLEAN]
          /\ disk' \in [Dbs -> [Oids \cup {Root} -> Record \cup {None}]]
      BY <1>1 DEF TypeOK
    <3> QED
      BY <1>3, <1>5, <2>1, <2>2, <3>1 DEF TypeOK, Handle
<1>7. Uses(p, d) /\ UserInv(p, d)
  BY <1>1 DEF Uses, UsersInv
<1>8. Undone(p, d)' \cup {"crypto"} = Undone(p, d) /\ "crypto" \notin classes[p]
  <2>1. classes[p] \subseteq Ciphers
    BY DEF TypeOK
  <2> QED
    BY <1>1, <1>3, <2>1, StepsDiffer DEF Undone
<1>9. UserInv(p, d)'
  <2>1. /\ main[p] \in classes[p] /\ main[p] # "crypto"
        /\ Undone(p, d)' \cap Ciphers \subseteq classes[p]
        /\ \A x \in classes[p] \ Undone(p, d)' : named[p][x] = KeyOf[d]
        /\ zlib[p] <=> ZipOf[d]
    BY <1>7, <1>8 DEF UserInv
  <2>2. ASSUME main[p] \notin Undone(p, d)'
        PROVE  default'[p] = [cipher |-> main[p], key |-> KeyOf[d], listed |-> TRUE]
    <3>1. default[p] = [cipher |-> main[p], key |-> KeyOf[d], listed |-> TRUE]
      BY <1>1, <1>7, <1>8, <2>1, <2>2 DEF UserInv
    <3>2. default[p].cipher # c
      BY <1>3, <2>2, <3>1 DEF Undone
    <3> QED
      BY <1>5, <3>1, <3>2
  <2>3. handle'[p][d].pc # "open"
    BY <1>3, <1>4
  <2> QED
    BY <1>1, <2>1, <2>2, <2>3 DEF UserInv
<1>10. UseInv' /\ UsersInv'
  <2>1. IsNew(d) => \A q \in Procs \ {p} : ~Uses(q, d)
    BY <1>7 DEF UseInv
  <2> QED
    BY <1>1, <1>3, <1>5, <1>7, <1>9, <2>1, OneUse
<1>11. ClassInv' /\ DiskInv'
  BY <1>1, DiskStays DEF ClassInv
<1> QED
  BY <1>6, <1>10, <1>11

LEMMA RegisterUtilityKeeps ==
    ASSUME StorageInv, Liberties = {}, NEW p \in Procs, NEW d \in Dbs, RegisterUtility(p, d)
    PROVE  StorageInv'
<1> USE DEF StorageInv
<1> DEFINE c == handle[p][d].pc
           h == [handle[p][d] EXCEPT !.pc = "crypto"]
           made == [cipher |-> c, key |-> KeyOf[d], listed |-> TRUE]
<1>1. /\ c \in Ciphers /\ c \notin {"closed", "crypto", "open"}
      /\ named' = [named EXCEPT ![p][c] = KeyOf[d]]
      /\ default' = [default EXCEPT ![p] =
              IF c = main[p] THEN made
              ELSE IF @ # None /\ @.cipher = c THEN [@ EXCEPT !.listed = FALSE] ELSE @]
      /\ handle' = [handle EXCEPT ![p][d].pc = "crypto"]
      /\ UNCHANGED <<classes, main, zlib, disk>>
  BY StepsDiffer DEF RegisterUtility
<1>2. handle[p][d] \in Handle /\ h \in Handle /\ handle \in [Procs -> [Dbs -> Handle]]
      /\ h.pc = "crypto" /\ h.todo = handle[p][d].todo
  <2>1. handle \in [Procs -> [Dbs -> Handle]]
    BY DEF Handle, TypeOK
  <2>2. handle[p][d] \in Handle
    BY <2>1
  <2> QED
    BY <2>1, <2>2 DEF Handle
<1>3. handle' = [handle EXCEPT ![p][d] = h]
  BY <1>1, <1>2
<1>4. /\ handle' \in [Procs -> [Dbs -> Handle]] /\ handle'[p][d] = h
      /\ \A q \in Procs, e \in Dbs : q # p \/ e # d => handle'[q][e] = handle[q][e]
  <2> HIDE DEF h
  <2> QED
    BY <1>2, <1>3, HandleSet
<1> HIDE DEF h
<1>5. /\ named'[p][c] = KeyOf[d] /\ \A x \in Ciphers \ {c} : named'[p][x] = named[p][x]
      /\ \A q \in Procs \ {p} : named'[q] = named[q]
      /\ named' \in [Procs -> [Ciphers -> Keys \cup {None}]]
  BY <1>1 DEF TypeOK, Keys
<1>6. made \in Encrypter /\ made.cipher = c /\ made.key = KeyOf[d]
  BY <1>1 DEF Encrypter, Keys
<1>7. /\ \A q \in Procs \ {p} : default'[q] = default[q]
      /\ c = main[p] => default'[p] = made
      /\ c # main[p] /\ default[p] # None /\ default[p].cipher = c =>
            default'[p] = [default[p] EXCEPT !.listed = FALSE]
      /\ c # main[p] /\ ~(default[p] # None /\ default[p].cipher = c) => default'[p] = default[p]
  <2> HIDE DEF made, c
  <2> QED
    BY <1>1 DEF TypeOK
<1>8. /\ default' \in [Procs -> Encrypter \cup {None}]
      /\ \A q \in Procs : default'[q] # None /\ default'[q].listed =>
            default'[q].key = named'[q][default'[q].cipher]
  <2>1. ASSUME default[p] # None
        PROVE  /\ [default[p] EXCEPT !.listed = FALSE] \in Encrypter
               /\ ~[default[p] EXCEPT !.listed = FALSE].listed
    BY <2>1 DEF TypeOK, Encrypter
  <2>2. default'[p] \in Encrypter \cup {None} /\ DOMAIN default' = Procs
    BY <1>1, <1>6, <1>7, <2>1 DEF TypeOK
  <2>3. default' \in [Procs -> Encrypter \cup {None}]
    BY <1>1, <1>7, <2>2 DEF TypeOK
  <2>4. ASSUME default'[p] # None, default'[p].listed
        PROVE  default'[p].key = named'[p][default'[p].cipher]
    <3>1. CASE c = main[p]
      BY <1>5, <1>6, <1>7, <3>1
    <3>2. CASE c # main[p] /\ default[p] # None /\ default[p].cipher = c
      BY <1>7, <2>1, <2>4, <3>2
    <3>3. CASE c # main[p] /\ ~(default[p] # None /\ default[p].cipher = c)
      <4>1. default'[p] = default[p] /\ default[p] # None /\ default[p].cipher # c
        BY <1>7, <2>4, <3>3
      <4>2. default[p].cipher \in Ciphers /\ default[p].key = named[p][default[p].cipher]
        BY <2>4, <4>1 DEF TypeOK, Encrypter
      <4> QED
        BY <1>5, <4>1, <4>2
    <3> QED
      BY <3>1, <3>2, <3>3
  <2>5. \A q \in Procs \ {p} : default'[q] # None /\ default'[q].listed =>
            default'[q].key = named'[q][default'[q].cipher]
    <3>1. \A q \in Procs : default[q] # None /\ default[q].listed =>
            default[q].key = named[q][default[q].cipher]
      BY DEF TypeOK
    <3> QED
      BY <1>5, <1>7, <3>1, Zenon
  <2> QED
    BY <2>3, <2>4, <2>5
<1>9. TypeOK'
  <2>1. \A q \in Procs, e \in Dbs :
            handle'[q][e].pc \in {"closed", "open"} => handle'[q][e].todo = {}
    BY <1>2, <1>4, StepDone
  <2> QED
    BY <1>1, <1>4, <1>5, <1>8, <2>1 DEF TypeOK, Handle
<1>10. Uses(p, d) /\ UserInv(p, d)
  BY <1>1 DEF Uses, UsersInv
<1>11. Undone(p, d) \cup {"crypto"} = Undone(p, d)' \cup {c} /\ "crypto" \notin classes[p]
  <2>1. classes[p] \subseteq Ciphers
    BY DEF TypeOK
  <2> QED
    BY <1>1, <1>2, <1>4, <2>1, StepsDiffer DEF Undone
<1>12. UserInv(p, d)'
  <2>1. /\ main[p] \in classes[p] /\ main[p] # "crypto" /\ (zlib[p] <=> ZipOf[d])
        /\ Undone(p, d)' \cap Ciphers \subseteq classes[p]
    BY <1>10, <1>11, StepsDiffer DEF UserInv
  <2>2. ASSUME NEW x \in classes[p] \ Undone(p, d)' PROVE named'[p][x] = KeyOf[d]
    <3>1. x \in Ciphers /\ x # "crypto"
      BY <1>11 DEF TypeOK
    <3> QED
      BY <1>5, <1>10, <1>11, <3>1 DEF UserInv
  <2>3. ASSUME main[p] \notin Undone(p, d)'
        PROVE  default'[p] = [cipher |-> main[p], key |-> KeyOf[d], listed |-> TRUE]
    <3>1. CASE c = main[p]
      BY <1>7, <3>1
    <3>2. CASE c # main[p]
      <4>1. main[p] \notin Undone(p, d)
        BY <1>11, <2>1, <2>3, <3>2
      <4>2. default[p] = [cipher |-> main[p], key |-> KeyOf[d], listed |-> TRUE]
        BY <1>1, <1>10, <4>1 DEF UserInv
      <4> QED
        BY <1>7, <3>2, <4>2
    <3> QED
      BY <3>1, <3>2
  <2>4. handle'[p][d].pc # "open"
    BY <1>2, <1>4
  <2> QED
    BY <1>1, <2>1, <2>2, <2>3, <2>4 DEF UserInv
<1>13. UseInv' /\ UsersInv'
  <2>1. IsNew(d) => \A q \in Procs \ {p} : ~Uses(q, d)
    BY <1>10 DEF UseInv
  <2> QED
    BY <1>1, <1>4, <1>5, <1>7, <1>10, <1>12, <2>1, OneUse
<1>14. c \in classes[p]
  BY <1>1, <1>10 DEF UserInv, Undone
<1>15. ClassInv' /\ DiskInv'
  BY <1>1, <1>5, <1>14, DiskStays DEF ClassInv
<1> QED
  BY <1>9, <1>13, <1>15
LEMMA OpenStorageKeeps ==
    ASSUME StorageInv, Liberties = {}, NEW p \in Procs, NEW d \in Dbs, OpenStorage(p, d)
    PROVE  StorageInv'
<1> USE DEF StorageInv
<1> DEFINE sig == disk[d][Root].sig
           made == [cipher |-> sig, key |-> named[p][sig], listed |-> TRUE]
           open == [handle[p][d] EXCEPT !.pc = "open"]
<1>1. /\ handle[p][d] = [pc |-> "crypto", todo |-> {}]
      /\ UNCHANGED <<classes, main, named, zlib, disk>>
      /\ \/ sig = None /\ handle' = [handle EXCEPT ![p][d].pc = "open"] /\ UNCHANGED default
         \/ /\ sig \in Ciphers /\ named[p][sig] # None
            /\ handle' = [handle EXCEPT ![p][d].pc = "open"]
            /\ default' = [default EXCEPT ![p] = made]
         \/ handle' = [handle EXCEPT ![p][d] = Closed] /\ UNCHANGED default
  BY DEF OpenStorage
<1>2. handle \in [Procs -> [Dbs -> Handle]] /\ Closed \in Handle
  BY DEF Handle, TypeOK, Closed
<1>3. open = [pc |-> "open", todo |-> {}] /\ open \in Handle
  BY <1>1 DEF Handle
<1>4. \/ handle' = [handle EXCEPT ![p][d] = open]
      \/ handle' = [handle EXCEPT ![p][d] = Closed]
  BY <1>1, <1>2
<1> HIDE DEF open
<1>5. /\ handle' \in [Procs -> [Dbs -> Handle]] /\ handle'[p][d] \in {open, Closed}
      /\ \A q \in Procs, e \in Dbs : q # p \/ e # d => handle'[q][e] = handle[q][e]
  <2>1. CASE handle' = [handle EXCEPT ![p][d] = open]
    BY <1>2, <1>3, <2>1, HandleSet
  <2>2. CASE handle' = [handle EXCEPT ![p][d] = Closed]
    BY <1>2, <2>2, HandleSet
  <2> QED
    BY <1>4, <2>1, <2>2
<1>6. /\ Uses(p, d) /\ UserInv(p, d) /\ Undone(p, d) = {"crypto"} /\ "crypto" \notin classes[p]
      /\ handle[p][d].pc # "open" /\ classes[p] \subseteq Ciphers
  BY <1>1, StepsDiffer DEF Uses, UsersInv, Undone, TypeOK
<1>7. /\ main[p] \in classes[p] /\ (zlib[p] <=> ZipOf[d])
      /\ \A c \in classes[p] : named[p][c] = KeyOf[d]
      /\ default[p] = [cipher |-> main[p], key |-> KeyOf[d], listed |-> TRUE]
  BY <1>6 DEF UserInv
<1>8. sig \in Ciphers /\ named[p][sig] # None => sig \in classes[p] /\ named[p][sig] = KeyOf[d]
  BY <1>7 DEF ClassInv
<1>9. sig = None => IsNew(d)
  BY NoneDiffers DEF DiskInv
<1>10. /\ \A q \in Procs \ {p} : default'[q] = default[q]
       /\ default' \in [Procs -> Encrypter \cup {None}]
       /\ default'[p] \in {default[p], made}
       /\ default'[p] = made => made.key = named[p][made.cipher]
  <2>1. CASE UNCHANGED default
    BY <2>1 DEF TypeOK
  <2>2. CASE /\ sig \in Ciphers /\ named[p][sig] # None
             /\ default' = [default EXCEPT ![p] = made]
    <3>1. made \in Encrypter /\ made.key = named[p][made.cipher]
      BY <2>2 DEF TypeOK, Encrypter
    <3> HIDE DEF made
    <3> QED
      BY <2>2, <3>1 DEF TypeOK
  <2> QED
    BY <1>1, <2>1, <2>2
<1>11. TypeOK'
  <2>1. \A q \in Procs, e \in Dbs :
            handle'[q][e].pc \in {"closed", "open"} => handle'[q][e].todo = {}
    <3>1. handle'[p][d].todo = {}
      BY <1>3, <1>5 DEF Closed
    <3> QED
      BY <1>5, <3>1, StepDone
  <2>2. \A q \in Procs : default'[q] # None /\ default'[q].listed =>
            default'[q].key = named'[q][default'[q].cipher]
    <3>1. \A q \in Procs : default[q] # None /\ default[q].listed =>
            default[q].key = named[q][default[q].cipher]
      BY DEF TypeOK
    <3>2. named' = named
      BY <1>1
    <3>3. ASSUME NEW q \in Procs, default'[q] # None, default'[q].listed
          PROVE  default'[q].key = named[q][default'[q].cipher]
      <4> HIDE DEF made
      <4>1. CASE default'[q] = default[q]
        BY <3>1, <3>3, <4>1
      <4>2. CASE q = p /\ default'[q] = made
        BY <1>10, <4>2
      <4> QED
        BY <1>10, <4>1, <4>2
    <3> QED
      BY <3>2, <3>3
  <2> QED
    BY <1>1, <1>5, <1>10, <2>1, <2>2 DEF TypeOK, Handle
<1>12. UserInv(p, d)'
  <2>1. CASE handle'[p][d] = Closed
    BY <2>1 DEF UserInv, Uses, Closed
  <2>2. CASE handle'[p][d] = open /\ handle'[p][d] # Closed
    <3>1. Undone(p, d)' = {"open"} /\ handle'[p][d].pc = "open"
      BY <1>3, <2>2 DEF Undone
    <3>2. handle' # [handle EXCEPT ![p][d] = Closed]
      BY <1>2, <2>2
    <3>3. \/ sig = None /\ default'[p] = default[p]
          \/ sig \in Ciphers /\ named[p][sig] # None /\ default'[p] = made
      BY <1>1, <3>2 DEF TypeOK
    <3>4. /\ default'[p].key = KeyOf[d] /\ default'[p].cipher \in classes[p]
          /\ ~IsNew(d) => default'[p].cipher = sig
      BY <1>7, <1>8, <1>9, <3>3
    <3>5. default'[p] # None
      <4>1. default[p] \in Encrypter /\ (default'[p] = made => made \in Encrypter)
        BY <1>7, <1>8, <3>3, <1>6 DEF Encrypter, Keys
      <4> QED
        BY <1>10, <4>1, NoneIsNothing
    <3>6. /\ classes' = classes /\ main' = main /\ named' = named /\ zlib' = zlib
          /\ (IsNew(d)' <=> IsNew(d)) /\ disk'[d][Root].sig = sig
      BY <1>1 DEF IsNew
    <3>7. Undone(p, d)' \cap Ciphers \subseteq classes[p]
      BY <3>1, StepsDiffer
    <3> HIDE DEF sig, made
    <3> QED
      BY <1>7, <3>1, <3>4, <3>5, <3>6, <3>7 DEF UserInv
  <2> QED
    BY <1>5, <2>1, <2>2
<1>13. UseInv' /\ UsersInv'
  <2>1. IsNew(d) => \A q \in Procs \ {p} : ~Uses(q, d)
    BY <1>6 DEF UseInv
  <2> QED
    BY <1>1, <1>5, <1>6, <1>10, <1>12, <2>1, OneUse
<1>14. ClassInv' /\ DiskInv'
  BY <1>1, DiskStays DEF ClassInv
<1> QED
  BY <1>11, <1>13, <1>14

LEMMA DisconnectKeeps ==
    ASSUME StorageInv, Liberties = {}, NEW p \in Procs, NEW d \in Dbs, Disconnect(p, d)
    PROVE  StorageInv'
<1> USE DEF StorageInv
<1>1. /\ handle[p][d].pc = "open" /\ handle' = [handle EXCEPT ![p][d] = Closed]
      /\ UNCHANGED <<classes, main, named, default, zlib, disk>>
  BY DEF Disconnect, registry
<1>2. handle \in [Procs -> [Dbs -> Handle]] /\ Closed \in Handle
  BY DEF Handle, TypeOK, Closed
<1>3. /\ handle' \in [Procs -> [Dbs -> Handle]] /\ handle'[p][d] = Closed
      /\ \A q \in Procs, e \in Dbs : q # p \/ e # d => handle'[q][e] = handle[q][e]
  BY <1>1, <1>2, HandleSet
<1>4. TypeOK'
  <2>1. \A q \in Procs, e \in Dbs :
            handle'[q][e].pc \in {"closed", "open"} => handle'[q][e].todo = {}
    <3>1. handle'[p][d].todo = {}
      BY <1>3 DEF Closed
    <3> QED
      BY <1>3, <3>1, StepDone
  <2> QED
    BY <1>1, <1>3, <2>1 DEF TypeOK, Handle
<1>5. Uses(p, d) /\ UserInv(p, d)'
  BY <1>1, <1>3 DEF Uses, UserInv, Closed
<1>6. UseInv' /\ UsersInv'
  <2>1. IsNew(d) => \A q \in Procs \ {p} : ~Uses(q, d)
    BY <1>5 DEF UseInv
  <2> QED
    BY <1>1, <1>3, <1>5, <2>1, OneUse
<1>7. ClassInv' /\ DiskInv'
  BY <1>1, DiskStays DEF ClassInv
<1> QED
  BY <1>4, <1>6, <1>7

LEMMA ExitKeeps ==
    ASSUME StorageInv, NEW p \in Procs, Exit(p)
    PROVE  StorageInv'
<1> USE DEF StorageInv
<1>1. /\ classes' = [classes EXCEPT ![p] = {}] /\ main' = [main EXCEPT ![p] = None]
      /\ named' = [named EXCEPT ![p] = [c \in Ciphers |-> None]]
      /\ default' = [default EXCEPT ![p] = None]
      /\ zlib' = [zlib EXCEPT ![p] = FALSE]
      /\ handle' = [handle EXCEPT ![p] = [d \in Dbs |-> Closed]]
      /\ UNCHANGED disk
  BY DEF Exit
<1>2. /\ \A e \in Dbs : handle'[p][e] = Closed
      /\ \A q \in Procs \ {p} : handle'[q] = handle[q]
  BY <1>1 DEF TypeOK
<1>3. \A e \in Dbs : ~Uses(p, e)' /\ \A q \in Procs \ {p} : Uses(q, e)' <=> Uses(q, e)
  BY <1>2 DEF Uses, Closed
<1>4. \A q \in Procs \ {p} :
        /\ classes'[q] = classes[q] /\ main'[q] = main[q] /\ named'[q] = named[q]
        /\ zlib'[q] = zlib[q] /\ default'[q] = default[q]
  BY <1>1 DEF TypeOK
<1>5. /\ default'[p] = None /\ \A c \in Ciphers : named'[p][c] = None
  BY <1>1 DEF TypeOK
<1>6. TypeOK'
  <2>1. handle' \in [Procs -> [Dbs -> Handle]]
    BY <1>1 DEF TypeOK, Handle, Closed
  <2>2. /\ classes' \in [Procs -> SUBSET Ciphers] /\ main' \in [Procs -> Ciphers \cup {None}]
        /\ named' \in [Procs -> [Ciphers -> Keys \cup {None}]] /\ zlib' \in [Procs -> BOOLEAN]
        /\ default' \in [Procs -> Encrypter \cup {None}]
        /\ disk' \in [Dbs -> [Oids \cup {Root} -> Record \cup {None}]]
    BY <1>1 DEF TypeOK
  <2>3. ASSUME NEW q \in Procs, NEW e \in Dbs, handle'[q][e].pc \in {"closed", "open"}
        PROVE  handle'[q][e].todo = {}
    <3>1. CASE q = p
      BY <1>2, <3>1 DEF Closed
    <3>2. CASE q # p
      BY <1>2, <2>3, <3>2 DEF TypeOK
    <3> QED
      BY <3>1, <3>2
  <2>4. ASSUME NEW q \in Procs, default'[q] # None, default'[q].listed
        PROVE  default'[q].key = named'[q][default'[q].cipher]
    <3>1. q # p /\ default'[q] = default[q] /\ named'[q] = named[q]
      BY <1>4, <1>5, <2>4
    <3> QED
      BY <2>4, <3>1 DEF TypeOK
  <2> QED
    BY <2>1, <2>2, <2>3, <2>4 DEF TypeOK, Handle
<1>7. \A e \in Dbs : IsNew(e)' <=> IsNew(e)
  BY <1>1 DEF IsNew
<1>8. UseInv'
  BY <1>3, <1>7 DEF UseInv
<1>9. ASSUME NEW q \in Procs, NEW e \in Dbs PROVE UserInv(q, e)'
  <2>1. CASE q = p
    BY <1>3, <2>1 DEF UserInv
  <2>2. CASE q # p
    BY <1>1, <1>2, <1>4, <1>7, <2>2, OthersKeep DEF UsersInv
  <2> QED
    BY <2>1, <2>2
<1>10. ClassInv'
  BY <1>4, <1>5 DEF ClassInv
<1> QED
  BY <1>1, <1>6, <1>8, <1>9, <1>10, DiskStays DEF UsersInv
LEMMA StoreKeeps ==
    ASSUME StorageInv, Liberties = {}, NEW p \in Procs, NEW d \in Dbs,
           NEW os \in SUBSET (Oids \cup {Root}), Store(p, d, os)
    PROVE  StorageInv'
<1> USE DEF StorageInv
<1> DEFINE all == Oids \cup {Root}
           e == default[p]
           written(o, z) == [Encrypted(p, o) EXCEPT !.zip = o \in z]
<1>1. PICK z \in Zips(p, os) :
          disk' = [disk EXCEPT ![d] = [o \in all |-> IF o \in os THEN written(o, z) ELSE @[o]]]
  BY DEF Store
<1>2. /\ handle[p][d].pc = "open" /\ (IsNew(d) => Root \in os)
      /\ UNCHANGED <<classes, main, named, default, zlib, handle>>
  BY DEF Store, registry
<1>3. /\ Uses(p, d) /\ UserInv(p, d) /\ e # None /\ e.key = KeyOf[d]
      /\ e.cipher \in Ciphers /\ e.cipher # None /\ e.cipher \in classes[p]
      /\ (zlib[p] <=> ZipOf[d])
      /\ ~IsNew(d) => e.cipher = disk[d][Root].sig
  <2>1. Uses(p, d) /\ UserInv(p, d)
    BY <1>2 DEF Uses, UsersInv
  <2>2. e.cipher \in classes[p] /\ classes[p] \subseteq Ciphers
    BY <1>2, <2>1 DEF UserInv, TypeOK
  <2> QED
    BY <1>2, <2>1, <2>2, NoneDiffers DEF UserInv
<1>4. \A o \in all : o \in z => ZipOf[d]
  BY <1>3 DEF Zips
<1>5. ASSUME NEW o \in all
      PROVE  /\ written(o, z) =
                    [sig |-> IF o = Root THEN e.cipher ELSE Unnamed, cipher |-> e.cipher,
                     key |-> KeyOf[d], zip |-> o \in z]
             /\ written(o, z) \in Record
  <2>1. Encrypted(p, o) = [sig |-> IF o = Root THEN e.cipher ELSE Unnamed, cipher |-> e.cipher,
                           key |-> KeyOf[d], zip |-> FALSE]
    BY <1>3 DEF Encrypted, Plain
  <2>2. written(o, z) = [sig |-> IF o = Root THEN e.cipher ELSE Unnamed, cipher |-> e.cipher,
                         key |-> KeyOf[d], zip |-> o \in z]
    BY <2>1
  <2>3. KeyOf[d] \in Keys /\ (o \in z) \in BOOLEAN
    BY DEF Keys
  <2> QED
    BY <1>3, <2>2, <2>3 DEF Record
<1> HIDE DEF written
<1>6. /\ disk' \in [Dbs -> [all -> Record \cup {None}]]
      /\ \A o \in all : disk'[d][o] = IF o \in os THEN written(o, z) ELSE disk[d][o]
      /\ \A f \in Dbs \ {d} : disk'[f] = disk[f]
  <2>1. [o \in all |-> IF o \in os THEN written(o, z) ELSE disk[d][o]]
            \in [all -> Record \cup {None}]
    BY <1>5 DEF TypeOK
  <2> QED
    BY <1>1, <2>1 DEF TypeOK
<1>7. disk'[d][Root].sig = e.cipher /\ ~IsNew(d)'
  <2>1. CASE Root \in os
    <3>1. disk'[d][Root].sig = e.cipher
      BY <1>5, <1>6, <2>1
    <3> QED
      BY <1>3, <3>1 DEF IsNew, Plain
  <2>2. CASE Root \notin os
    BY <1>2, <1>3, <1>6, <2>2 DEF IsNew
  <2> QED
    BY <2>1, <2>2
<1>8. \A f \in Dbs \ {d} : IsNew(f)' <=> IsNew(f)
  BY <1>6 DEF IsNew
<1>9. TypeOK'
  BY <1>2, <1>6 DEF TypeOK
<1>10. UseInv' /\ ClassInv'
  <2>1. \A q \in Procs, f \in Dbs : Uses(q, f)' <=> Uses(q, f)
    BY <1>2 DEF Uses
  <2> QED
    BY <1>2, <1>7, <1>8, <2>1 DEF UseInv, ClassInv
<1>11. ASSUME NEW q \in Procs, NEW f \in Dbs PROVE UserInv(q, f)'
  <2>1. CASE f # d
    BY <1>2, <1>6, <1>8, <2>1, OthersKeep DEF UsersInv
  <2>2. CASE f = d /\ q # p
    <3>1. CASE IsNew(d)
      <4>1. ~Uses(q, d)
        BY <1>3, <2>2, <3>1 DEF UseInv
      <4> QED
        BY <1>2, <2>2, <4>1 DEF UserInv, Uses
    <3>2. CASE ~IsNew(d)
      BY <1>2, <1>3, <1>7, <2>2, <3>2, OthersKeep DEF UsersInv
    <3> QED
      BY <3>1, <3>2
  <2>3. CASE f = d /\ q = p
    BY <1>2, <1>3, <1>7, <2>3 DEF UserInv, Uses, Undone
  <2> QED
    BY <2>1, <2>2, <2>3
<1>12. ASSUME NEW o \in all, disk'[d][o] # None PROVE Fits(d, disk[d][o])'
  <2>1. CASE o \in os
    <3>1. disk'[d][o] = written(o, z)
      BY <1>6, <2>1
    <3>2. disk'[d][o] = [sig |-> IF o = Root THEN e.cipher ELSE Unnamed, cipher |-> e.cipher,
                         key |-> KeyOf[d], zip |-> o \in z]
      BY <1>5, <3>1
    <3>3. /\ disk'[d][o].cipher = e.cipher /\ disk'[d][o].key = KeyOf[d]
          /\ disk'[d][o].sig \in {Unnamed, e.cipher}
      BY <3>2
    <3>4. disk'[d][o].zip => ZipOf[d]
      <4>1. disk'[d][o].zip = (o \in z)
        BY <3>2
      <4> QED
        BY <1>4, <4>1, Zenon
    <3> QED
      BY <1>7, <3>3, <3>4, Zenon DEF Fits
  <2>2. CASE o \notin os
    <3>1. disk'[d][o] = disk[d][o] /\ disk[d][o] # None
      BY <1>6, <1>12, <2>2
    <3>2. ~IsNew(d)
      BY <1>2, <2>2, <3>1 DEF DiskInv
    <3>3. Fits(d, disk[d][o]) /\ disk[d][Root].sig = e.cipher
      BY <1>3, <3>1, <3>2 DEF DiskInv
    <3> QED
      BY <1>7, <3>1, <3>3 DEF Fits
  <2> QED
    BY <2>1, <2>2
<1>13. DiskInv'
  <2>1. ASSUME NEW f \in Dbs \ {d}
        PROVE  /\ IsNew(f)' => \A o \in Oids : disk'[f][o] = None
               /\ ~IsNew(f)' => /\ disk'[f][Root].sig \in Ciphers
                                /\ \A o \in all : disk'[f][o] # None => Fits(f, disk[f][o])'
    <3>1. disk'[f] = disk[f] /\ (IsNew(f)' <=> IsNew(f))
      BY <1>6, <1>8
    <3>2. \A r : Fits(f, r)' <=> Fits(f, r)
      BY <3>1 DEF Fits
    <3> QED
      BY <3>1, <3>2 DEF DiskInv
  <2> QED
    BY <1>3, <1>7, <1>12, <2>1 DEF DiskInv
<1> QED
  BY <1>9, <1>10, <1>11, <1>13 DEF UsersInv

LEMMA NextStorage == ASSUME Liberties = {} PROVE StorageInv /\ [Next]_vars => StorageInv'
<1>1. ASSUME StorageInv, UNCHANGED vars PROVE StorageInv'
  <2>1. UNCHANGED <<classes, main, named, default, zlib, handle, disk>>
    BY <1>1 DEF vars, registry
  <2>2. TypeOK'
    BY <1>1, <2>1 DEF StorageInv, TypeOK
  <2>3. /\ \A f \in Dbs : IsNew(f)' <=> IsNew(f)
        /\ \A q \in Procs, f \in Dbs : Uses(q, f)' <=> Uses(q, f)
    BY <2>1 DEF IsNew, Uses
  <2>4. UseInv' /\ ClassInv'
    BY <1>1, <2>1, <2>3 DEF StorageInv, UseInv, ClassInv
  <2>5. UsersInv'
    BY <1>1, <2>1, <2>3, OthersKeep DEF StorageInv, UsersInv
  <2> QED
    BY <1>1, <2>1, <2>2, <2>4, <2>5, DiskStays DEF StorageInv
<1> QED
  BY <1>1, RegisterClassesKeeps, UnregisterUtilityKeeps, RegisterUtilityKeeps, OpenStorageKeeps,
     StoreKeeps, DisconnectKeeps, ExitKeeps DEF Next

LEMMA StorageInvariance == Liberties = {} => (Spec => []StorageInv)
<1> SUFFICES ASSUME Liberties = {} PROVE Spec => []StorageInv
  OBVIOUS
<1>1. StorageInv /\ [Next]_vars => StorageInv'
  BY NextStorage
<1> QED
  BY <1>1, InitStorage, PTL DEF Spec

\* Of an application that takes no liberties, whatever it opens, stores, closes
\* and kills: a new process that knows the cipher of a database's root reads
\* every record with the key of the database (TransformingStorage, init_crypto).
THEOREM AlwaysReadable == Liberties = {} => (Spec => []Readable)
<1>1. ASSUME StorageInv, NEW d \in Dbs, NEW o \in Oids \cup {Root}, NEW es \in Encrypters,
             disk[d][o] # None, disk[d][o].sig # None
      PROVE  LET r == disk[d][o]
                 e == DefaultFor(d, es)
             IN r.cipher = e.cipher /\ r.key = e.key /\ (r.zip => ZipOf[d])
  <2>1. ~IsNew(d)
    <3> SUFFICES ASSUME IsNew(d) PROVE FALSE
      OBVIOUS
    <3>1. \A x \in Oids : disk[d][x] = None
      BY <1>1 DEF StorageInv, DiskInv
    <3>2. disk[d][Root].sig = None
      BY DEF IsNew, Plain
    <3> QED
      BY <1>1, <3>1, <3>2
  <2>2. disk[d][Root].sig # None /\ Fits(d, disk[d][o])
    BY <1>1, <2>1, NoneDiffers DEF StorageInv, DiskInv
  <2> QED
    BY <2>2 DEF Fits, DefaultFor
<1>2. StorageInv => Readable
  BY <1>1 DEF Readable
<1> QED
  BY <1>2, StorageInvariance, PTL

\* Of such an application, an open database can load all of its records, those
\* of other processes included (TransformingStorage.loadBefore).
THEOREM AlwaysLoads == Liberties = {} => (Spec => []LoadsSucceed)
<1>1. ASSUME StorageInv, NEW p \in Procs, NEW d \in Dbs, NEW o \in Oids \cup {Root},
             handle[p][d].pc = "open", disk[d][o] # None
      PROVE  Loads(p, disk[d][o])
  <2> DEFINE r == disk[d][o]
             sig == disk[d][Root].sig
  <2>1. Uses(p, d) /\ UserInv(p, d)
    BY <1>1 DEF Uses, StorageInv, UsersInv
  <2>2. CASE IsNew(d)
    <3>1. r = Plain
      BY <1>1, <2>2 DEF StorageInv, DiskInv, IsNew
    <3> QED
      BY <3>1 DEF Plain, Loads, Decrypts, Decompresses
  <2>3. CASE ~IsNew(d)
    <3>1. /\ sig \in Ciphers /\ r.cipher = sig /\ r.key = KeyOf[d]
          /\ r.sig \in {Unnamed, sig} /\ (r.zip => ZipOf[d])
      BY <1>1, <2>3 DEF StorageInv, DiskInv, Fits
    <3>2. /\ default[p] # None /\ default[p].key = KeyOf[d] /\ default[p].cipher = sig
          /\ sig \in classes[p] /\ (zlib[p] <=> ZipOf[d])
      BY <1>1, <2>1, <2>3 DEF UserInv
    <3>3. Undone(p, d) \cap classes[p] = {}
      <4>1. handle[p][d].todo = {} /\ classes[p] \subseteq Ciphers
        BY <1>1 DEF StorageInv, TypeOK
      <4> QED
        BY <1>1, <4>1, StepsDiffer DEF Undone
    <3>4. named[p][sig] = KeyOf[d] /\ KeyOf[d] \in Keys
      BY <2>1, <3>2, <3>3 DEF UserInv, Keys
    <3>5. CASE r.sig = Unnamed
      <4>1. Utility(p, r.sig) = default[p]
        BY <3>5 DEF Utility
      <4> QED
        BY <3>1, <3>2, <4>1 DEF Loads, Decrypts, Decompresses, Authentic
    <3>6. CASE r.sig = sig /\ r.sig # Unnamed
      <4> DEFINE u == [cipher |-> sig, key |-> KeyOf[d], listed |-> TRUE]
      <4>1. Utility(p, r.sig) = u
        BY <3>4, <3>6, NoneIsNothing DEF Utility
      <4>2. u \in Encrypter
        BY <3>1, <3>4 DEF Encrypter
      <4>3. u # None /\ Authentic(u, r)
        BY <3>1, <4>2, NoneIsNothing DEF Authentic
      <4> QED
        BY <3>1, <3>2, <4>1, <4>3 DEF Loads, Decrypts, Decompresses
    <3> QED
      BY <3>1, <3>5, <3>6
  <2> QED
    BY <2>2, <2>3
<1>2. StorageInv => LoadsSucceed
  BY <1>1 DEF LoadsSucceed, StorageInv
<1> QED
  BY <1>2, StorageInvariance, PTL
=============================================================================
