--------------------------- MODULE UserAdminProofs ---------------------------
(* Proofs about UserAdmin: for any users, names, certificates and passwords, *)
(* and whatever the admin does, fails at, aborts or reloads, the TLS layer   *)
(* accepts exactly the certificates that register can look up; of a careful  *)
(* admin the directories and the users' records agree, and a login reaches   *)
(* a user that exists.                                                       *)
EXTENDS UserAdmin, TLAPS

\* The part of the invariant that is about one Admin object: the accepted
\* certificates are the known ones (Admin.certs.data, Admin.uids).
Known(m) == \A c \in AllCerts : c \in m.data <=> m.uids[c] # Nil

\* A new Admin object knows the nobody certificate only (Admin.__init__).
LEMMA NoUsersKnown == NoUsers \in Admin /\ Known(NoUsers)
  BY NilDiffers DEF NoUsers, Admin, Known, AllCerts

\* Entering a user changes no certificate (add_user).
LEMMA WithUserKnown ==
    ASSUME NEW m \in Admin, Known(m), NEW u \in Users, NEW n \in Names,
           NEW p \in Pwds \cup {Nil}
    PROVE  WithUser(m, u, n, p) \in Admin /\ Known(WithUser(m, u, n, p))
  <1> DEFINE r == WithUser(m, u, n, p)
  <1>1. /\ m.users \cup {u} \in SUBSET Users
        /\ [m.byName EXCEPT ![n] = u] \in [Names -> Users \cup {Nil}]
        /\ [m.certs EXCEPT ![u] = {}] \in [Users -> SUBSET AllCerts]
    BY DEF Admin
  <1>2. /\ [m.pw EXCEPT ![u] = p] \in [Users -> Pwds \cup {Nil}]
        /\ [m.salt EXCEPT ![u] = (p # Nil)] \in [Users -> BOOLEAN]
        /\ [m.name EXCEPT ![u] = n] \in [Users -> Names \cup {Nil}]
    BY DEF Admin
  <1>3. r \in Admin
    BY <1>1, <1>2 DEF WithUser, Admin
  <1>4. r.data = m.data /\ r.uids = m.uids
    BY DEF WithUser, Admin
  <1> QED
    BY <1>3, <1>4 DEF Known

\* A certificate is entered in both directories (_add_user_cert).
LEMMA WithCertKnown ==
    ASSUME NEW m \in Admin, Known(m), NEW u \in Users, NEW c \in AllCerts
    PROVE  WithCert(m, u, c) \in Admin /\ Known(WithCert(m, u, c))
  BY NilDiffers DEF WithCert, Admin, Known

\* ... and taken out of both (_del_user_certs).
LEMMA WithoutCertsKnown ==
    ASSUME NEW m \in Admin, Known(m), NEW u \in Users
    PROVE  WithoutCerts(m, u) \in Admin /\ Known(WithoutCerts(m, u))
  BY DEF WithoutCerts, Admin, Known

\* Clearing the user's own record touches neither (change_cert).
LEMMA ClearedCertsKnown ==
    ASSUME NEW m \in Admin, Known(m), NEW u \in Users
    PROVE  ClearedCerts(m, u) \in Admin /\ Known(ClearedCerts(m, u))
  BY DEF ClearedCerts, Admin, Known

\* A change of certificate keeps the two directories together even when it
\* fails half way (change_cert).
LEMMA CertChangeKnown ==
    ASSUME NEW m \in Admin, Known(m), NEW u \in Users,
           NEW c \in AllCerts \cup {Nil, Keep}
    PROVE  /\ CertChange(m, u, c).mem \in Admin
           /\ Known(CertChange(m, u, c).mem)
  <1> DEFINE cleared == ClearedCerts(WithoutCerts(m, u), u)
  <1>1. cleared \in Admin /\ Known(cleared)
    BY WithoutCertsKnown, ClearedCertsKnown
  <1>2. CASE c \in {Nil, Keep} \/ ~Removable(m, u)
    BY <1>1, <1>2 DEF CertChange
  <1>3. CASE c \in AllCerts /\ c \notin {Nil, Keep} /\ Removable(m, u)
    <2>1. WithCert(cleared, u, c) \in Admin /\ Known(WithCert(cleared, u, c))
      BY <1>1, <1>3, WithCertKnown
    <2> HIDE DEF cleared
    <2>2. CertChange(m, u, c).mem \in {cleared, WithCert(cleared, u, c)}
      BY <1>3 DEF CertChange, cleared
    <2>3. QED
      BY <1>1, <2>1, <2>2
  <1>4. QED
    BY <1>2, <1>3

\* The inductive invariant: both the committed and the connection's Admin
\* object are well typed and have their two directories together.
AcceptInv == TypeOK /\ Known(db) /\ Known(mem)

\* Deleting a user's name and entry changes no certificate (del_user).
LEMMA DelUserKnown ==
    ASSUME NEW m \in Admin, Known(m), NEW n \in Names, NEW u \in Users
    PROVE  LET d == [m EXCEPT !.byName[n] = Nil, !.users = @ \ {u}]
           IN d \in Admin /\ Known(d)
  BY DEF Admin, Known

\* Saving or restoring the users' own records, as Commit, Abort and Reload do,
\* leaves the directories alone.
LEMMA RecordsKnown ==
    ASSUME NEW m \in Admin, Known(m), NEW f \in [Users -> SUBSET AllCerts]
    PROVE  [m EXCEPT !.certs = f] \in Admin /\ Known([m EXCEPT !.certs = f])
  BY DEF Admin, Known

\* The server starts with the root user, and at most that user's certificate.
LEMMA InitAccepts == Init => AcceptInv
  <1> SUFFICES ASSUME Init PROVE AcceptInv
    OBVIOUS
  <1>1. PICK n \in Names, c \in Certs \cup {Nil}, p \in Pwds \cup {Nil} :
            LET m == WithUser(NoUsers, Root, n, p)
            IN db = IF c = Nil THEN m ELSE WithCert(m, Root, c)
    BY DEF Init
  <1>2. /\ WithUser(NoUsers, Root, n, p) \in Admin
        /\ Known(WithUser(NoUsers, Root, n, p))
    BY NoUsersKnown, WithUserKnown, RootIsUser
  <1>3. db \in Admin /\ Known(db)
    <2>1. CASE c = Nil
      BY <1>1, <1>2, <2>1
    <2>2. CASE c # Nil
      <3>1. c \in AllCerts
        BY <2>2 DEF AllCerts
      <3>2. db = WithCert(WithUser(NoUsers, Root, n, p), Root, c)
        BY <1>1, <2>2
      <3>3. QED
        BY <1>2, <3>1, <3>2, WithCertKnown, RootIsUser
    <2>3. QED
      BY <2>1, <2>2
  <1>4. QED
    BY <1>3 DEF Init, AcceptInv, TypeOK

\* Every step keeps it: what the admin changes, what a transaction writes or
\* takes back, and what a login reads.
LEMMA StepAccepts == AcceptInv /\ [Next]_vars => AcceptInv'
  <1> SUFFICES ASSUME AcceptInv, [Next]_vars PROVE AcceptInv'
    OBVIOUS
  <1> USE DEF AcceptInv
  <1> USE DEF TypeOK
  <1>1. ASSUME NEW u \in Users, NEW n \in Names, NEW c \in AllCerts \cup {Nil},
               NEW p \in Pwds \cup {Nil}, AddUser(u, n, c, p)
        PROVE  AcceptInv'
    <2> DEFINE m == WithUser(mem, u, n, p)
    <2>1. m \in Admin /\ Known(m)
      BY WithUserKnown
    <2>2. c \in AllCerts => WithCert(m, u, c) \in Admin /\ Known(WithCert(m, u, c))
      BY <2>1, WithCertKnown
    <2>3. /\ mem' = m \/ (c # Nil /\ mem' = WithCert(m, u, c))
          /\ txn' \in {"active", "raised"}
          /\ dirty' = dirty \cup {u} /\ db' = db /\ session' = session
          /\ taken' = taken
      BY <1>1 DEF AddUser
    <2> HIDE DEF m
    <2>4. mem' \in Admin /\ Known(mem')
      BY <2>1, <2>2, <2>3
    <2>5. QED
      BY <2>3, <2>4
  <1>2. ASSUME NEW n \in Names, DelUser(n) PROVE AcceptInv'
    <2> DEFINE u == mem.byName[n]
               m == [mem EXCEPT !.byName[n] = Nil, !.users = @ \ {u}]
    <2>1. u \in Users
      BY <1>2 DEF DelUser, Admin
    <2>2. m \in Admin /\ Known(m)
      BY <2>1, DelUserKnown
    <2>3. /\ mem' \in {m, WithoutCerts(m, u)}
          /\ txn' \in {"active", "raised"}
          /\ UNCHANGED <<db, dirty, session, taken>>
      BY <1>2 DEF DelUser
    <2> HIDE DEF m, u
    <2>4. WithoutCerts(m, u) \in Admin /\ Known(WithoutCerts(m, u))
      BY <2>1, <2>2, WithoutCertsKnown
    <2>5. mem' \in Admin /\ Known(mem')
      BY <2>2, <2>3, <2>4
    <2>6. QED
      BY <2>3, <2>5
  <1>3. ASSUME NEW n \in Names, NEW c \in AllCerts \cup {Nil, Keep},
               NEW p \in Pwds \cup {Nil, Keep}, ChangeCert(n, c, p)
        PROVE  AcceptInv'
    <2> DEFINE u == mem.byName[n]
               m == CertChange(mem, u, c).mem
    <2>1. u \in Users
      BY <1>3 DEF ChangeCert, Admin
    <2>2. m \in Admin /\ Known(m)
      BY <2>1, CertChangeKnown
    <2>3. /\ mem' = m \/ (p # Keep /\ mem' = [m EXCEPT !.pw[u] = p])
          /\ txn' \in {"active", "raised"} /\ dirty' \in {dirty, dirty \cup {u}}
          /\ UNCHANGED <<db, session, taken>>
      BY <1>3 DEF ChangeCert
    <2> HIDE DEF m, u
    <2>4. p # Keep => [m EXCEPT !.pw[u] = p] \in Admin /\ Known([m EXCEPT !.pw[u] = p])
      BY <2>1, <2>2 DEF Admin, Known
    <2>5. mem' \in Admin /\ Known(mem')
      BY <2>2, <2>3, <2>4
    <2>6. QED
      BY <2>1, <2>3, <2>5
  <1>4. ASSUME Commit PROVE AcceptInv'
    <2> DEFINE f == [u \in Users |-> IF u \in dirty THEN mem.certs[u] ELSE db.certs[u]]
    <2>1. f \in [Users -> SUBSET AllCerts]
      BY DEF Admin
    <2>2. /\ db' = [mem EXCEPT !.certs = f] /\ txn' = "none" /\ dirty' = {}
          /\ UNCHANGED <<mem, session, taken>>
      BY <1>4 DEF Commit
    <2> HIDE DEF f
    <2>3. db' \in Admin /\ Known(db')
      BY <2>1, <2>2, RecordsKnown
    <2>4. QED
      BY <2>2, <2>3
  <1>5. ASSUME Abort PROVE AcceptInv'
    <2> DEFINE f == [u \in Users |-> IF u \in dirty THEN db.certs[u] ELSE mem.certs[u]]
    <2>1. f \in [Users -> SUBSET AllCerts]
      BY DEF Admin
    <2>2. /\ mem' = [db EXCEPT !.certs = f] /\ txn' = "none" /\ dirty' = {}
          /\ UNCHANGED <<db, session, taken>>
      BY <1>5 DEF Abort
    <2> HIDE DEF f
    <2>3. mem' \in Admin /\ Known(mem')
      BY <2>1, <2>2, RecordsKnown
    <2>4. QED
      BY <2>2, <2>3
  <1>6. ASSUME NEW u \in Users, Reload(u) PROVE AcceptInv'
    <2>1. /\ mem' = [mem EXCEPT !.certs[u] = db.certs[u]]
          /\ UNCHANGED <<db, dirty, txn, session, taken>>
      BY <1>6 DEF Reload
    <2>2. mem' \in Admin /\ Known(mem')
      BY <2>1 DEF Admin, Known
    <2>3. QED
      BY <2>1, <2>2
  <1>7. ASSUME NEW c \in AllCerts, RegisterCert(c) PROVE AcceptInv'
    BY <1>7 DEF RegisterCert
  <1>8. ASSUME NEW c \in AllCerts, NEW n \in Names, NEW p \in Pwds,
               RegisterCredentials(c, n, p)
        PROVE  AcceptInv'
    <2>1. session' \in Users /\ UNCHANGED <<db, mem, dirty, txn, taken>>
      BY <1>8 DEF RegisterCredentials, Admin
    <2>2. QED
      BY <2>1
  <1>9. ASSUME Begin PROVE AcceptInv'
    BY <1>9 DEF Begin
  <1>10. ASSUME UNCHANGED vars PROVE AcceptInv'
    BY <1>10 DEF vars
  <1>11. QED
    BY <1>1, <1>2, <1>3, <1>4, <1>5, <1>6, <1>7, <1>8, <1>9, <1>10 DEF Next

\* For any users, names, certificates and passwords, whatever the admin does
\* and whatever fails half way: the certificates the TLS layer accepts are the
\* ones register can look up (Admin.certs.data, Admin.uids, ssl_context).
THEOREM Accepted == Spec => [](TypeOK /\ AcceptedIffKnown)
  <1>1. AcceptInv => TypeOK /\ AcceptedIffKnown
    BY DEF AcceptInv, Known, AcceptedIffKnown
  <1>2. QED
    BY <1>1, InitAccepts, StepAccepts, PTL DEF Spec
-----------------------------------------------------------------------------
(* The directories and the records of a careful admin. *)

\* The four parts of DirectoriesAgree, of one Admin object, and that every user
\* has a name.
CertsLead(m) == \A c \in AllCerts : m.uids[c] \in m.users \cup {Nobody, Nil}
RecordsName(m) == \A u \in m.users, c \in AllCerts : c \in m.certs[u] <=> m.uids[c] = u
NamesFind(m) ==
    /\ \A u \in Users, n \in Names : m.byName[n] = u <=> u \in m.users /\ m.name[u] = n
    /\ \A u \in m.users : m.name[u] # Nil
OneEach(m) == \A u \in m.users : \A c, k \in m.certs[u] : c = k

Agree(m) == CertsLead(m) /\ RecordsName(m) /\ NamesFind(m) /\ OneEach(m)

\* Of a careful admin both objects agree, and the records of users that are not
\* registered as changed are the committed ones.
CarefulInv ==
    taken = {} =>
        /\ Agree(db) /\ Agree(mem)
        /\ \A u \in Users \ dirty : mem.certs[u] = db.certs[u]
        /\ txn = "none" => dirty = {}
\* A new Admin object has no users to disagree about (Admin.__init__).
LEMMA NoUsersAgree == Agree(NoUsers)
  BY NilDiffers, NobodyDiffers
     DEF NoUsers, Agree, CertsLead, RecordsName, NamesFind, OneEach, AllCerts

\* A new user under a new name has no certificates yet (add_user).
LEMMA WithUserAgree ==
    ASSUME NEW m \in Admin, Agree(m), NEW u \in Users, NEW n \in Names,
           NEW p \in Pwds \cup {Nil}, m.name[u] = Nil, m.byName[n] = Nil
    PROVE  LET r == WithUser(m, u, n, p)
           IN Agree(r) /\ u \in r.users /\ r.certs[u] = {} /\ r.uids = m.uids
                       /\ \A v \in Users \ {u} : r.certs[v] = m.certs[v]
  <1> DEFINE r == WithUser(m, u, n, p)
  <1>1. /\ r.users = m.users \cup {u} /\ r.uids = m.uids
        /\ r.byName = [m.byName EXCEPT ![n] = u]
        /\ r.certs = [m.certs EXCEPT ![u] = {}]
        /\ r.name = [m.name EXCEPT ![u] = n]
    BY DEF WithUser, Admin
  <1>2. /\ m.users \subseteq Users /\ m.byName \in [Names -> Users \cup {Nil}]
        /\ m.certs \in [Users -> SUBSET AllCerts] /\ m.name \in [Users -> Names \cup {Nil}]
    BY DEF Admin
  <1>3. u \notin m.users /\ Nil \notin Users /\ Nil \notin Names /\ Nobody \notin Users
    BY NilDiffers, NobodyDiffers DEF Agree, NamesFind
  <1> HIDE DEF r
  <1>4. \A c \in AllCerts : m.uids[c] # u
    BY <1>3, NobodyDiffers DEF Agree, CertsLead
  <1>5. CertsLead(r)
    BY <1>1 DEF Agree, CertsLead
  <1>6. RecordsName(r)
    BY <1>1, <1>2, <1>3, <1>4 DEF Agree, RecordsName
  <1>7. NamesFind(r)
    BY <1>1, <1>2, <1>3 DEF Agree, NamesFind
  <1>8. OneEach(r)
    BY <1>1, <1>2, <1>3 DEF Agree, OneEach
  <1>9. QED
    BY <1>1, <1>2, <1>5, <1>6, <1>7, <1>8 DEF Agree, r

\* A certificate in no use is entered for a user who has none (_add_user_cert).
LEMMA WithCertAgree ==
    ASSUME NEW m \in Admin, Agree(m), NEW u \in m.users, NEW c \in AllCerts,
           m.certs[u] = {}, m.uids[c] = Nil
    PROVE  /\ Agree(WithCert(m, u, c))
           /\ \A v \in Users \ {u} : WithCert(m, u, c).certs[v] = m.certs[v]
  <1> DEFINE r == WithCert(m, u, c)
  <1>1. /\ r.users = m.users /\ r.byName = m.byName /\ r.name = m.name
        /\ r.uids = [m.uids EXCEPT ![c] = u]
        /\ r.certs = [m.certs EXCEPT ![u] = m.certs[u] \cup {c}]
    BY DEF WithCert, Admin
  <1>2. /\ m.users \subseteq Users /\ m.certs \in [Users -> SUBSET AllCerts]
        /\ m.uids \in [AllCerts -> Users \cup {Nobody, Nil}]
        /\ Nil \notin Users
    BY NilDiffers DEF Admin
  <1> HIDE DEF r
  <1>3. CertsLead(r)
    BY <1>1, <1>2 DEF Agree, CertsLead
  <1>4. RecordsName(r)
    BY <1>1, <1>2 DEF Agree, RecordsName
  <1>5. NamesFind(r)
    BY <1>1 DEF Agree, NamesFind
  <1>6. OneEach(r)
    BY <1>1, <1>2 DEF Agree, OneEach
  <1>7. QED
    BY <1>1, <1>2, <1>3, <1>4, <1>5, <1>6 DEF Agree, r

\* The certificates that a user's record names are those that lead to the user,
\* so that they can be taken out (_del_user_certs).
LEMMA CertsRemovable ==
    ASSUME NEW m \in Admin, Agree(m), NEW u \in m.users
    PROVE  /\ u \in Users /\ m.certs[u] \subseteq AllCerts /\ Removable(m, u)
           /\ \A c \in AllCerts : c \in m.certs[u] <=> m.uids[c] = u
  <1>1. u \in Users /\ m.certs[u] \subseteq AllCerts
    BY DEF Admin
  <1>2. \A c \in AllCerts : c \in m.certs[u] <=> m.uids[c] = u
    BY DEF Agree, RecordsName
  <1>3. QED
    BY <1>1, <1>2, NilDiffers DEF Removable

\* A user goes with the name and the certificates (del_user).
LEMMA DelUserAgree ==
    ASSUME NEW m \in Admin, Agree(m), NEW n \in Names, NEW u \in Users, m.byName[n] = u
    PROVE  LET d == [m EXCEPT !.byName[n] = Nil, !.users = @ \ {u}]
           IN /\ Removable(d, u) /\ Agree(WithoutCerts(d, u))
              /\ WithoutCerts(d, u).certs = m.certs
  <1> DEFINE d == [m EXCEPT !.byName[n] = Nil, !.users = @ \ {u}]
             r == WithoutCerts(d, u)
  <1>1. u \in m.users /\ m.name[u] = n
    BY DEF Agree, NamesFind
  <1>2. /\ m.certs[u] \subseteq AllCerts /\ Removable(m, u)
        /\ \A c \in AllCerts : c \in m.certs[u] <=> m.uids[c] = u
    BY <1>1, CertsRemovable
  <1>3. /\ d.users = m.users \ {u} /\ d.byName = [m.byName EXCEPT ![n] = Nil]
        /\ d.certs = m.certs /\ d.uids = m.uids /\ d.name = m.name /\ d \in Admin
    BY DEF Admin
  <1> HIDE DEF d
  <1>4. /\ r.users = m.users \ {u} /\ r.byName = [m.byName EXCEPT ![n] = Nil]
        /\ r.certs = m.certs /\ r.name = m.name
        /\ r.uids = [c \in AllCerts |-> IF c \in m.certs[u] THEN Nil ELSE m.uids[c]]
    BY <1>3 DEF WithoutCerts, Admin
  <1>5. /\ m.users \subseteq Users /\ m.byName \in [Names -> Users \cup {Nil}]
        /\ Nil \notin Users
    BY NilDiffers DEF Admin
  <1> HIDE DEF r
  <1>6. CertsLead(r)
    BY <1>2, <1>4 DEF Agree, CertsLead
  <1>7. RecordsName(r)
    BY <1>2, <1>4, <1>5 DEF Agree, RecordsName
  <1>8. NamesFind(r)
    BY <1>1, <1>4, <1>5 DEF Agree, NamesFind
  <1>9. OneEach(r)
    BY <1>4 DEF Agree, OneEach
  <1>10. Removable(d, u)
    BY <1>2, <1>3 DEF Removable
  <1>11. QED
    BY <1>4, <1>6, <1>7, <1>8, <1>9, <1>10 DEF Agree, r, d

LEMMA WithoutCertsTyped ==
    ASSUME NEW m \in Admin, NEW u \in Users
    PROVE  WithoutCerts(m, u) \in Admin
  <1> DEFINE f == [c \in AllCerts |-> IF c \in m.certs[u] THEN Nil ELSE m.uids[c]]
             g == m.data \ m.certs[u]
  <1>1. f \in [AllCerts -> Users \cup {Nobody, Nil}] /\ g \in SUBSET AllCerts
    BY DEF Admin
  <1>2. WithoutCerts(m, u) = [m EXCEPT !.uids = f, !.data = g]
    BY DEF WithoutCerts
  <1> HIDE DEF f, g
  <1>3. QED
    BY <1>1, <1>2 DEF Admin

\* A user without certificates, before change_cert enters a new one
LEMMA ClearedAgree ==
    ASSUME NEW m \in Admin, Agree(m), NEW u \in m.users
    PROVE  LET r == ClearedCerts(WithoutCerts(m, u), u)
           IN /\ r \in Admin /\ Agree(r) /\ r.users = m.users /\ r.certs[u] = {}
              /\ \A v \in Users \ {u} : r.certs[v] = m.certs[v]
  <1> DEFINE w == WithoutCerts(m, u)
             r == ClearedCerts(w, u)
  <1>1. /\ u \in Users /\ m.certs[u] \subseteq AllCerts
        /\ \A c \in AllCerts : c \in m.certs[u] <=> m.uids[c] = u
    BY CertsRemovable
  <1>2. /\ w.users = m.users /\ w.byName = m.byName /\ w.certs = m.certs /\ w.name = m.name
        /\ w.uids = [c \in AllCerts |-> IF c \in m.certs[u] THEN Nil ELSE m.uids[c]]
    BY DEF WithoutCerts, Admin
  <1> HIDE DEF w
  <1>3. /\ r.users = m.users /\ r.byName = m.byName /\ r.name = m.name
        /\ r.uids = w.uids /\ r.certs = [m.certs EXCEPT ![u] = {}] /\ r \in Admin
    <2>1. w \in Admin
      BY <1>1, WithoutCertsTyped DEF w
    <2>2. QED
      BY <1>1, <1>2, <2>1 DEF ClearedCerts, Admin
  <1>4. m.users \subseteq Users /\ m.certs \in [Users -> SUBSET AllCerts] /\ Nil \notin Users
    BY NilDiffers DEF Admin
  <1> HIDE DEF r
  <1>5. CertsLead(r)
    BY <1>2, <1>3 DEF Agree, CertsLead
  <1>6. RecordsName(r)
    BY <1>1, <1>2, <1>3, <1>4 DEF Agree, RecordsName
  <1>7. NamesFind(r)
    BY <1>3 DEF Agree, NamesFind
  <1>8. OneEach(r)
    BY <1>3, <1>4 DEF Agree, OneEach
  <1>9. QED
    BY <1>1, <1>3, <1>4, <1>5, <1>6, <1>7, <1>8 DEF Agree, r, w
\* A password is in none of the directories (change_password).
LEMMA PasswordAgree ==
    ASSUME NEW m \in Admin, Agree(m), NEW u \in Users, NEW p \in Pwds \cup {Nil}
    PROVE  LET r == [m EXCEPT !.pw[u] = p] IN Agree(r) /\ r.certs = m.certs
  <1> DEFINE r == [m EXCEPT !.pw[u] = p]
  <1>1. /\ r.users = m.users /\ r.byName = m.byName /\ r.name = m.name
        /\ r.uids = m.uids /\ r.certs = m.certs
    BY DEF Admin
  <1> HIDE DEF r
  <1>2. QED
    BY <1>1 DEF Agree, CertsLead, RecordsName, NamesFind, OneEach, r

\* Entering the user's new certificate, where that does not fail (change_cert)
LEMMA CertChangeAgree ==
    ASSUME NEW m \in Admin, Agree(m), NEW u \in m.users,
           NEW c \in AllCerts \cup {Nil, Keep}, CertChange(m, u, c).ok
    PROVE  LET r == CertChange(m, u, c).mem
           IN /\ Agree(r)
              /\ \A v \in Users \ {u} : r.certs[v] = m.certs[v]
              /\ c = Keep => r = m
  <1> DEFINE cleared == ClearedCerts(WithoutCerts(m, u), u)
             r == CertChange(m, u, c)
  <1>1. /\ cleared \in Admin /\ Agree(cleared) /\ u \in cleared.users /\ cleared.certs[u] = {}
        /\ \A v \in Users \ {u} : cleared.certs[v] = m.certs[v]
    BY ClearedAgree
  <1> HIDE DEF cleared
  <1>2. CASE c = Keep
    BY <1>2 DEF CertChange
  <1>3. CASE c # Keep /\ c = Nil
    <2>1. r.mem = cleared
      BY <1>3 DEF CertChange, cleared
    <2>2. QED
      BY <1>1, <1>3, <2>1
  <1>4. CASE c # Keep /\ c # Nil
    <2>1. ~InUse(cleared, u, c) /\ r.mem = WithCert(cleared, u, c)
      BY <1>4 DEF CertChange, cleared
    <2>2. cleared.uids[c] = Nil
      BY <2>1 DEF InUse
    <2>3. /\ Agree(WithCert(cleared, u, c))
          /\ \A v \in Users \ {u} : WithCert(cleared, u, c).certs[v] = cleared.certs[v]
      BY <1>1, <1>4, <2>2, WithCertAgree
    <2>4. QED
      BY <1>1, <1>4, <2>1, <2>3
  <1>5. QED
    BY <1>2, <1>3, <1>4

LEMMA InitCareful == Init => CarefulInv
  <1> SUFFICES ASSUME Init PROVE CarefulInv
    OBVIOUS
  <1>1. PICK n \in Names, c \in Certs \cup {Nil}, p \in Pwds \cup {Nil} :
            LET m == WithUser(NoUsers, Root, n, p)
            IN db = IF c = Nil THEN m ELSE WithCert(m, Root, c)
    BY DEF Init
  <1> DEFINE m == WithUser(NoUsers, Root, n, p)
  <1>2. NoUsers.name[Root] = Nil /\ NoUsers.byName[n] = Nil
    BY RootIsUser DEF NoUsers
  <1>3. /\ m \in Admin /\ Agree(m) /\ Root \in m.users /\ m.certs[Root] = {}
        /\ m.uids = NoUsers.uids
    BY <1>2, NoUsersKnown, NoUsersAgree, WithUserKnown, WithUserAgree, RootIsUser
  <1> HIDE DEF m
  <1>4. Agree(db)
    <2>1. CASE c = Nil
      BY <1>1, <1>3, <2>1 DEF m
    <2>2. CASE c # Nil
      <3>1. c \in AllCerts /\ m.uids[c] = Nil /\ db = WithCert(m, Root, c)
        <4>1. c \in Certs /\ c \in AllCerts /\ c # Nobody
          BY <2>2, NobodyDiffers DEF AllCerts
        <4>2. NoUsers.uids[c] = Nil
          BY <4>1 DEF NoUsers
        <4>3. QED
          BY <1>1, <1>3, <2>2, <4>1, <4>2 DEF m
      <3>2. QED
        BY <1>3, <3>1, WithCertAgree
    <2>3. QED
      BY <2>1, <2>2
  <1>5. QED
    BY <1>4 DEF Init, CarefulInv

\* Nothing is registered as changed between transactions.
LEMMA StepIdle ==
    [Next]_vars => /\ taken' = taken
                   /\ txn' = "none" => dirty' = {} \/ (txn = "none" /\ dirty' = dirty)
  <1> DEFINE Idle == /\ taken' = taken
                     /\ txn' = "none" => dirty' = {} \/ (txn = "none" /\ dirty' = dirty)
  <1>1. ASSUME NEW u \in Users, NEW n \in Names, NEW c \in AllCerts \cup {Nil},
               NEW p \in Pwds \cup {Nil}, AddUser(u, n, c, p)
        PROVE  Idle
    BY <1>1 DEF AddUser
  <1>2. ASSUME NEW n \in Names, DelUser(n) PROVE Idle
    BY <1>2 DEF DelUser
  <1>3. ASSUME NEW n \in Names, NEW c \in AllCerts \cup {Nil, Keep},
               NEW p \in Pwds \cup {Nil, Keep}, ChangeCert(n, c, p)
        PROVE  Idle
    BY <1>3 DEF ChangeCert
  <1>4. ASSUME NEW u \in Users, Reload(u) PROVE Idle
    BY <1>4 DEF Reload
  <1>5. ASSUME Begin \/ Commit \/ Abort \/ UNCHANGED vars PROVE Idle
    BY <1>5 DEF Begin, Commit, Abort, vars
  <1>6. ASSUME NEW c \in AllCerts, RegisterCert(c) PROVE Idle
    BY <1>6 DEF RegisterCert
  <1>7. ASSUME NEW c \in AllCerts, NEW n \in Names, NEW p \in Pwds,
               RegisterCredentials(c, n, p)
        PROVE  Idle
    BY <1>7 DEF RegisterCredentials
  <1> HIDE DEF Idle
  <1>8. [Next]_vars => Idle
    BY <1>1, <1>2, <1>3, <1>4, <1>5, <1>6, <1>7 DEF Next
  <1>9. QED
    BY <1>8 DEF Idle

\* Every step of a careful admin keeps directories and records together, in the
\* open transaction as well as in what is committed.
LEMMA StepCareful == AcceptInv /\ CarefulInv /\ [Next]_vars => CarefulInv'
  <1> SUFFICES ASSUME AcceptInv, CarefulInv, [Next]_vars, taken' = {} PROVE CarefulInv'
    BY DEF CarefulInv
  <1>1. taken = {} /\ taken' = taken
    BY StepIdle
  <1>2. /\ Agree(db) /\ Agree(mem) /\ \A u \in Users \ dirty : mem.certs[u] = db.certs[u]
        /\ db \in Admin /\ mem \in Admin /\ Known(db) /\ Known(mem) /\ dirty \subseteq Users
        /\ txn = "none" => dirty = {}
    BY <1>1 DEF CarefulInv, AcceptInv, TypeOK
  <1>idle. txn' = "none" => dirty' = {}
    BY <1>2, StepIdle
  <1>keep. ASSUME UNCHANGED db, Agree(mem'), dirty \subseteq dirty',
                  \A u \in Users \ dirty' : mem'.certs[u] = mem.certs[u]
           PROVE  CarefulInv'
    BY <1>2, <1>idle, <1>keep DEF CarefulInv
  <1>3. ASSUME NEW u \in Users, NEW n \in Names, NEW c \in AllCerts \cup {Nil},
               NEW p \in Pwds \cup {Nil}, AddUser(u, n, c, p)
        PROVE  CarefulInv'
    <2> DEFINE m == WithUser(mem, u, n, p)
    <2>1. mem.name[u] = Nil /\ mem.byName[n] = Nil /\ dirty' = dirty \cup {u} /\ UNCHANGED db
      BY <1>1, <1>3 DEF AddUser
    <2>2. /\ m \in Admin /\ Agree(m) /\ u \in m.users /\ m.certs[u] = {} /\ m.uids = mem.uids
          /\ \A v \in Users \ {u} : m.certs[v] = mem.certs[v]
      BY <1>2, <2>1, WithUserKnown, WithUserAgree
    <2>3. mem' = m \/ (c # Nil /\ ~InUse(m, u, c) /\ mem' = WithCert(m, u, c))
      BY <1>3 DEF AddUser
    <2> HIDE DEF m
    <2>4. CASE mem' = m
      BY <2>1, <2>2, <2>4, <1>keep
    <2>5. CASE c # Nil /\ ~InUse(m, u, c) /\ mem' = WithCert(m, u, c)
      <3>1. c \in AllCerts /\ m.uids[c] = Nil
        BY <2>5 DEF InUse
      <3>2. /\ Agree(WithCert(m, u, c))
            /\ \A v \in Users \ {u} : WithCert(m, u, c).certs[v] = m.certs[v]
        BY <2>2, <3>1, WithCertAgree
      <3>3. QED
        BY <2>1, <2>2, <2>5, <3>2, <1>keep
    <2>6. QED
      BY <2>3, <2>4, <2>5
  <1>4. ASSUME NEW n \in Names, DelUser(n) PROVE CarefulInv'
    <2> DEFINE u == mem.byName[n]
               d == [mem EXCEPT !.byName[n] = Nil, !.users = @ \ {u}]
    <2>1. u \in Users /\ mem.byName[n] = u /\ UNCHANGED <<db, dirty>>
      BY <1>2, <1>4 DEF DelUser, Admin
    <2>u. \/ Removable(d, u) /\ mem' = WithoutCerts(d, u)
          \/ ~Removable(d, u)
      BY <1>4 DEF DelUser
    <2> HIDE DEF u
    <2>2. Removable(d, u) /\ Agree(WithoutCerts(d, u)) /\ WithoutCerts(d, u).certs = mem.certs
      <3>1. mem \in Admin /\ Agree(mem) /\ u \in Users /\ mem.byName[n] = u
        BY <1>2, <2>1
      <3>2. \A v \in Users : mem.byName[n] = v =>
              LET e == [mem EXCEPT !.byName[n] = Nil, !.users = @ \ {v}]
              IN  /\ Removable(e, v) /\ Agree(WithoutCerts(e, v))
                  /\ WithoutCerts(e, v).certs = mem.certs
        BY <3>1, DelUserAgree, Zenon
      <3> QED
        BY <3>1, <3>2, Zenon
    <2>3. mem' = WithoutCerts(d, u)
      BY <2>2, <2>u
    <2> HIDE DEF d
    <2>4. QED
      BY <2>1, <2>2, <2>3, <1>keep
  <1>5. ASSUME NEW n \in Names, NEW c \in AllCerts \cup {Nil, Keep},
               NEW p \in Pwds \cup {Nil, Keep}, ChangeCert(n, c, p)
        PROVE  CarefulInv'
    <2> DEFINE u == mem.byName[n]
               r == CertChange(mem, u, c)
               done == r.ok /\ Hashable(mem, u, p)
    <2>1. /\ u \in Users /\ UNCHANGED db
          /\ c # Keep => p # Keep /\ done
          /\ IF done /\ p # Keep
             THEN mem' = [r.mem EXCEPT !.pw[u] = p] /\ dirty' = dirty \cup {u}
             ELSE mem' = r.mem /\ UNCHANGED dirty
      BY <1>1, <1>2, <1>5 DEF ChangeCert, Admin
    <2>2. u \in mem.users
      BY <1>2, <2>1 DEF Agree, NamesFind
    <2>3. r.mem \in Admin
      BY <1>2, <2>1, CertChangeKnown
    <2>4. r.ok
      BY <2>1 DEF CertChange
    <2>5. /\ Agree(r.mem)
          /\ \A v \in Users \ {u} : r.mem.certs[v] = mem.certs[v]
          /\ c = Keep => r.mem = mem
      BY <1>2, <2>2, <2>4, CertChangeAgree
    <2> HIDE DEF r, u, done
    <2>6. CASE done /\ p # Keep
      <3>1. p \in Pwds \cup {Nil}
        BY <2>6
      <3>2. /\ Agree([r.mem EXCEPT !.pw[u] = p])
            /\ [r.mem EXCEPT !.pw[u] = p].certs = r.mem.certs
        BY <2>1, <2>3, <2>5, <3>1, PasswordAgree
      <3>3. QED
        BY <2>1, <2>5, <2>6, <3>2, <1>keep
    <2>7. CASE ~(done /\ p # Keep)
      BY <2>1, <2>5, <2>7, <1>keep
    <2>8. QED
      BY <2>6, <2>7
  <1>6. ASSUME Commit PROVE CarefulInv'
    <2> DEFINE f == [u \in Users |-> IF u \in dirty THEN mem.certs[u] ELSE db.certs[u]]
    <2>1. f = mem.certs
      BY <1>2 DEF Admin
    <2>2. db' = [mem EXCEPT !.certs = f] /\ mem' = mem
      BY <1>6 DEF Commit
    <2> HIDE DEF f
    <2>3. db' = mem
      BY <1>2, <2>1, <2>2 DEF Admin
    <2>4. QED
      BY <1>2, <1>idle, <2>2, <2>3 DEF CarefulInv
  <1>7. ASSUME Abort PROVE CarefulInv'
    <2> DEFINE f == [u \in Users |-> IF u \in dirty THEN db.certs[u] ELSE mem.certs[u]]
    <2>1. f = db.certs
      BY <1>2 DEF Admin
    <2>2. mem' = [db EXCEPT !.certs = f] /\ db' = db
      BY <1>7 DEF Abort
    <2> HIDE DEF f
    <2>3. mem' = db
      BY <1>2, <2>1, <2>2 DEF Admin
    <2>4. QED
      BY <1>2, <1>idle, <2>2, <2>3 DEF CarefulInv
  <1>8. ASSUME NEW u \in Users, Reload(u) PROVE CarefulInv'
    BY <1>2, <1>8 DEF Reload
  <1>9. ASSUME UNCHANGED <<db, mem, dirty>> PROVE CarefulInv'
    BY <1>2, <1>idle, <1>9 DEF CarefulInv
  <1>10. ASSUME NEW c \in AllCerts, RegisterCert(c) PROVE CarefulInv'
    BY <1>9, <1>10 DEF RegisterCert
  <1>11. ASSUME NEW c \in AllCerts, NEW n \in Names, NEW p \in Pwds,
                RegisterCredentials(c, n, p)
         PROVE  CarefulInv'
    BY <1>9, <1>11 DEF RegisterCredentials
  <1>12. ASSUME Begin \/ UNCHANGED vars PROVE CarefulInv'
    BY <1>9, <1>12 DEF Begin, vars
  <1>13. QED
    BY <1>3, <1>4, <1>5, <1>6, <1>7, <1>8, <1>10, <1>11, <1>12 DEF Next

LEMMA CarefulInvariance == Spec => [](AcceptInv /\ CarefulInv)
  BY InitAccepts, InitCareful, StepAccepts, StepCareful, PTL DEF Spec

\* For any users, names, certificates and passwords, as long as certificates are
\* changed together with the password and nothing fails half way: names,
\* certificates and users' records agree (add_user, del_user, change_cert).
THEOREM Agreement == Spec => []DirectoriesAgree
  <1>1. CarefulInv => DirectoriesAgree
    BY DEF CarefulInv, Agree, CertsLead, RecordsName, NamesFind, OneEach,
           DirectoriesAgree, CertsOfUsers, RecordsNameCerts, NamesFindUsers, OneCert
  <1>2. QED
    BY <1>1, CarefulInvariance, PTL

\* Of such an admin, whatever is changed between two logins: a login gives the
\* session a user that exists (ZEOStorage.register).
THEOREM Logins == Spec => LoginsReachUsers
  <1> DEFINE Reaches == taken = {} /\ session' # session => session' \in db.users
  <1>1. ASSUME CarefulInv, taken = {}, NEW c \in AllCerts, RegisterCert(c) PROVE Reaches
    BY <1>1, NilDiffers, NobodyDiffers DEF CarefulInv, Agree, CertsLead, RegisterCert
  <1>2. ASSUME AcceptInv, CarefulInv, taken = {}, NEW c \in AllCerts, NEW n \in Names,
               NEW p \in Pwds, RegisterCredentials(c, n, p)
        PROVE  Reaches
    <2>1. session' = db.byName[n] /\ db.byName[n] \in Users
      BY <1>2 DEF RegisterCredentials, AcceptInv, TypeOK, Admin
    <2>2. QED
      BY <1>2, <2>1 DEF CarefulInv, Agree, NamesFind
  <1>3. ASSUME NEW u \in Users, NEW n \in Names, NEW c \in AllCerts \cup {Nil},
               NEW p \in Pwds \cup {Nil}, AddUser(u, n, c, p)
        PROVE  Reaches
    BY <1>3 DEF AddUser
  <1>4. ASSUME NEW n \in Names, NEW c \in AllCerts \cup {Nil, Keep},
               NEW p \in Pwds \cup {Nil, Keep}, ChangeCert(n, c, p)
        PROVE  Reaches
    BY <1>4 DEF ChangeCert
  <1>5. ASSUME NEW n \in Names, DelUser(n) PROVE Reaches
    BY <1>5 DEF DelUser
  <1>r. ASSUME NEW u \in Users, Reload(u) PROVE Reaches
    BY <1>r DEF Reload
  <1>6. ASSUME Begin \/ Commit \/ Abort PROVE Reaches
    BY <1>6 DEF Begin, Commit, Abort
  <1> HIDE DEF Reaches
  <1>7. ASSUME AcceptInv, CarefulInv, [Next]_vars PROVE [taken = {} => Reaches]_vars
    BY <1>1, <1>2, <1>3, <1>4, <1>5, <1>r, <1>6, <1>7 DEF Next
  <1>8. (taken = {} => Reaches) => Reaches
    BY DEF Reaches
  <1>9. AcceptInv /\ CarefulInv /\ [Next]_vars => [Reaches]_vars
    BY <1>7, <1>8
  <1>10. QED
    BY <1>9, CarefulInvariance, PTL DEF Spec, LoginsReachUsers, Reaches
=============================================================================
