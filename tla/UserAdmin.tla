------------------------------ MODULE UserAdmin ------------------------------
(***************************************************************************)
(* The user administration of a zerodb server: the Admin object with its   *)
(* directories of users, names and certificates, changed by one admin      *)
(* connection in transactions, and the logins that read what is committed. *)
(*                                                                         *)
(* The directories are BTrees and save themselves.  User.certs is a plain  *)
(* dictionary that is changed in place: the User record is written, and    *)
(* reverted by an abort, only when an attribute was assigned as well.      *)
(***************************************************************************)
CONSTANTS
    Users,       \* User objects, known by the oid of their root folder
    Names,
    Certs,       \* client certificates, without the nobody certificate
    Nobody,      \* the nobody certificate, and the user it stands for
    Pwds,
    Nil,         \* no entry, no value, a false argument
    Keep,        \* an argument that is left None
    Root,        \* the user that init_db creates
    Regimes      \* sets of liberties to look at, see Liberties

\* What an admin may do: "cert_only": certificates are changed without a
\* password; "failing_change": a change may fail half way; "same_name": a name
\* may be added twice.
Liberties == {"cert_only", "failing_change", "same_name"}

AllCerts == Certs \cup {Nobody}

ASSUME NilDiffers == Nil \notin Users \cup Names \cup Certs \cup Pwds \cup {Nobody, Keep}
ASSUME NobodyDiffers == Nobody \notin Certs \cup Users
ASSUME KeepDiffers == Keep \notin Certs \cup Pwds \cup {Nobody}
ASSUME RootIsUser == Root \in Users
ASSUME RegimesKnown == Regimes \subseteq SUBSET Liberties

VARIABLES
    db,       \* committed: the Admin object with its directories and users
    mem,      \* the same as the admin connection sees it
    dirty,    \* users that are new or registered as changed
    txn,      \* the admin's transaction: "raised" once an operation raised
    session,  \* the user of the latest login
    taken     \* the liberties that this admin takes

vars == <<db, mem, dirty, txn, session, taken>>

Admin ==
    [users : SUBSET Users,               \* Admin.users
     byName : [Names -> Users \cup {Nil}],        \* Admin.users_by_name
     uids : [AllCerts -> Users \cup {Nobody, Nil}], \* Admin.uids
     data : SUBSET AllCerts,             \* Admin.certs.data
     certs : [Users -> SUBSET AllCerts], \* User.certs
     pw : [Users -> Pwds \cup {Nil}],    \* User.password
     salt : [Users -> BOOLEAN],          \* whether User.salt was ever set
     name : [Users -> Names \cup {Nil}]] \* User.name, Nil: no such object yet

TypeOK ==
    /\ db \in Admin /\ mem \in Admin
    /\ dirty \subseteq Users
    /\ txn \in {"none", "active", "raised"}
    /\ session \in Users \cup {Nil}
    /\ taken \in Regimes

-----------------------------------------------------------------------------
(* What Admin's methods do to an Admin object m. *)

\* Admin.__init__: no users, and the nobody certificate known as nobody's.
NoUsers ==
    [users |-> {}, byName |-> [n \in Names |-> Nil],
     uids |-> [c \in AllCerts |-> IF c = Nobody THEN Nobody ELSE Nil],
     data |-> {Nobody}, certs |-> [u \in Users |-> {}],
     pw |-> [u \in Users |-> Nil], salt |-> [u \in Users |-> FALSE],
     name |-> [u \in Users |-> Nil]]

\* The user object and the first two directories, as add_user makes them.
WithUser(m, u, n, p) ==
    [m EXCEPT !.users = @ \cup {u}, !.byName[n] = u, !.certs[u] = {},
              !.pw[u] = p, !.salt[u] = (p # Nil), !.name[u] = n]

\* _add_user_cert raises ValueError for a certificate in use ...
InUse(m, u, c) == m.uids[c] # Nil \/ c \in m.certs[u]

\* Mutant of WithCert: the list of accepted certificates is not extended.
WithCertUnlisted(m, u, c) == [m EXCEPT !.uids[c] = u, !.certs[u] = @ \cup {c}]

\* ... and otherwise enters it in all three places.
WithCert(m, u, c) ==
    [m EXCEPT !.uids[c] = u, !.certs[u] = @ \cup {c}, !.data = @ \cup {c}]

\* _del_user_certs raises KeyError for a certificate that is not in uids ...
Removable(m, u) == \A c \in m.certs[u] : m.uids[c] # Nil

\* Mutant of WithoutCerts: the uids of the certificates stay behind.
WithoutCertsKeepsUids(m, u) == [m EXCEPT !.data = @ \ m.certs[u]]

\* ... and otherwise takes the certificates out of the two directories.
WithoutCerts(m, u) ==
    [m EXCEPT !.uids = [c \in AllCerts |-> IF c \in m.certs[u] THEN Nil ELSE m.uids[c]],
              !.data = @ \ m.certs[u]]

\* user.certs.clear()
ClearedCerts(m, u) == [m EXCEPT !.certs[u] = {}]

\* init_db: a database with its root user, with or without a certificate and a
\* password.
Init ==
    /\ \E n \in Names, c \in Certs \cup {Nil}, p \in Pwds \cup {Nil} :
        LET m == WithUser(NoUsers, Root, n, p)
        IN db = IF c = Nil THEN m ELSE WithCert(m, Root, c)
    /\ mem = db /\ dirty = {} /\ txn = "none" /\ session = Nil
    /\ taken \in Regimes

-----------------------------------------------------------------------------
(* The admin's operations. *)

Begin ==
    /\ txn = "none"
    /\ txn' = "active"
    /\ UNCHANGED <<db, mem, dirty, session, taken>>

\* add_user: the new user has been entered when the certificate is refused.
AddUser(u, n, c, p) ==
    /\ txn = "active"
    /\ mem.name[u] = Nil
    /\ mem.byName[n] # Nil => "same_name" \in taken
    /\ dirty' = dirty \cup {u}
    /\ LET m == WithUser(mem, u, n, p) IN
        \/ c = Nil /\ mem' = m /\ UNCHANGED txn
        \/ c # Nil /\ InUse(m, u, c) /\ mem' = m /\ txn' = "raised"
        \/ c # Nil /\ ~InUse(m, u, c) /\ mem' = WithCert(m, u, c) /\ UNCHANGED txn
    /\ UNCHANGED <<db, session, taken>>

\* del_user (an unknown name raises before anything is changed)
DelUser(n) ==
    /\ txn = "active"
    /\ mem.byName[n] # Nil
    /\ LET u == mem.byName[n]
           m == [mem EXCEPT !.byName[n] = Nil, !.users = @ \ {u}]
       IN \/ Removable(m, u) /\ mem' = WithoutCerts(m, u) /\ UNCHANGED txn
          \/ ~Removable(m, u) /\ mem' = m /\ txn' = "raised"
    /\ UNCHANGED <<db, dirty, session, taken>>

\* The first half of change_cert: the certificate, and whether it raised.
CertChange(m, u, c) ==
    LET cleared == ClearedCerts(WithoutCerts(m, u), u) IN
    IF c = Keep THEN [mem |-> m, ok |-> TRUE]
    ELSE IF ~Removable(m, u) THEN [mem |-> m, ok |-> FALSE]
    ELSE IF c = Nil THEN [mem |-> cleared, ok |-> TRUE]
    ELSE IF InUse(cleared, u, c) THEN [mem |-> cleared, ok |-> FALSE]
    ELSE [mem |-> WithCert(cleared, u, c), ok |-> TRUE]

\* The second half, User.change_password: a user created without a password
\* has no salt to hash one with, which raises.
Hashable(m, u, p) == p \in Pwds => m.salt[u]

ChangeCert(n, c, p) ==
    /\ txn = "active"
    /\ mem.byName[n] # Nil
    /\ LET u == mem.byName[n]
           r == CertChange(mem, u, c)
           done == r.ok /\ Hashable(mem, u, p)
       IN /\ c # Keep /\ p = Keep => "cert_only" \in taken
          /\ c # Keep /\ ~done => "failing_change" \in taken
          /\ txn' = IF done THEN txn ELSE "raised"
          /\ IF done /\ p # Keep
             THEN mem' = [r.mem EXCEPT !.pw[u] = p] /\ dirty' = dirty \cup {u}
             ELSE mem' = r.mem /\ UNCHANGED dirty
    /\ UNCHANGED <<db, session, taken>>

\* Only the records of users registered as changed are written.
Commit ==
    /\ txn = "active"
    /\ txn' = "none"
    /\ db' = [mem EXCEPT !.certs =
                [u \in Users |-> IF u \in dirty THEN mem.certs[u] ELSE db.certs[u]]]
    /\ dirty' = {}
    /\ UNCHANGED <<mem, session, taken>>

\* ... and only they are reverted; the directories always are.
Abort ==
    /\ txn # "none"
    /\ txn' = "none"
    /\ mem' = [db EXCEPT !.certs =
                [u \in Users |-> IF u \in dirty THEN db.certs[u] ELSE mem.certs[u]]]
    /\ dirty' = {}
    /\ UNCHANGED <<db, session, taken>>

\* The connection's cache drops a user it has not registered as changed, or the
\* admin comes back with a new connection: the record is read again.
Reload(u) ==
    /\ txn = "none"
    /\ mem.certs[u] # db.certs[u]
    /\ mem' = [mem EXCEPT !.certs[u] = db.certs[u]]
    /\ UNCHANGED <<db, dirty, txn, session, taken>>

-----------------------------------------------------------------------------
(* ZEOStorage.register: the TLS layer accepts the certificates of            *)
(* Admin.certs.data, uids names the user, and credentials must agree.        *)

\* Without credentials the certificate must be a user's own.
RegisterCert(c) ==
    /\ c \in db.data /\ db.uids[c] \in Users
    /\ session' = db.uids[c]
    /\ UNCHANGED <<db, mem, dirty, txn, taken>>

\* Mutant of RegisterCredentials: it reads the admin's open transaction.
RegisterUncommitted(c, n, p) ==
    /\ c \in mem.data
    /\ mem.byName[n] # Nil
    /\ LET u == mem.byName[n] IN
        /\ mem.uids[c] \in {u, Nobody}
        /\ mem.salt[u] /\ mem.pw[u] = p
        /\ session' = u
    /\ UNCHANGED <<db, mem, dirty, txn, taken>>

\* With credentials it may also be the nobody certificate.
RegisterCredentials(c, n, p) ==
    /\ c \in db.data
    /\ db.byName[n] # Nil
    /\ LET u == db.byName[n] IN
        /\ db.uids[c] \in {u, Nobody}
        /\ db.salt[u] /\ db.pw[u] = p
        /\ session' = u
    /\ UNCHANGED <<db, mem, dirty, txn, taken>>

Next ==
    \/ Begin \/ Commit \/ Abort
    \/ \E u \in Users : Reload(u)
    \/ \E n \in Names, c \in AllCerts \cup {Nil}, p \in Pwds \cup {Nil}, u \in Users :
        AddUser(u, n, c, p)
    \/ \E n \in Names : DelUser(n)
    \/ \E n \in Names, c \in AllCerts \cup {Nil, Keep}, p \in Pwds \cup {Nil, Keep} :
        ChangeCert(n, c, p)
    \/ \E c \in AllCerts : RegisterCert(c)
    \/ \E c \in AllCerts, n \in Names, p \in Pwds : RegisterCredentials(c, n, p)

Spec == Init /\ [][Next]_vars

-----------------------------------------------------------------------------
(* Properties. *)

\* The certificates the TLS layer accepts are the ones register can look up,
\* whatever failed, was aborted or was reloaded before (Acceptor.ssl_context,
\* ZEOStorage.register, Admin.certs, Admin.uids).
AcceptedIffKnown == \A c \in AllCerts : c \in db.data <=> db.uids[c] # Nil

\* No certificate leads to a deleted user: "Now, they can't log in at all"
\* (del_user, change_cert).
CertsOfUsers == \A c \in AllCerts : db.uids[c] \in db.users \cup {Nobody, Nil}

\* A user's record names exactly the certificates that lead to the user
\* ("Users have certs: {der -> pem_data}"), so that del_user and change_cert can
\* take them out of the directories.
RecordsNameCerts ==
    \A u \in db.users, c \in AllCerts : c \in db.certs[u] <=> db.uids[c] = u

\* Every user is found under its name, and under no other (users,
\* users_by_name).
NamesFindUsers ==
    \A u \in Users, n \in Names :
        db.byName[n] = u <=> u \in db.users /\ db.name[u] = n

\* There can be only one certificate of a user ("Today, TCBOO cert").
OneCert == \A u \in db.users : \A c, k \in db.certs[u] : c = k

\* A login gives the session a user that exists (ZEOStorage.register).
LoginsReachUsers ==
    [][taken = {} /\ session' # session => session' \in db.users]_vars

\* The three directories and the records agree, as long as a certificate is
\* changed together with the password and nothing fails half way.
DirectoriesAgree ==
    taken = {} => CertsOfUsers /\ RecordsNameCerts /\ NamesFindUsers /\ OneCert
=============================================================================
