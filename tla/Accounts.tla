------------------------------ MODULE Accounts ------------------------------
(***************************************************************************)
(* The accounts of the login server: the tables auth_user,                 *)
(* auth_local_credential and auth_identity of internal/auth/store.go, and  *)
(* the operations of MySQLStore that write them.                           *)
(*                                                                         *)
(* A user's ID_ is AUTO_INCREMENT and no code deletes a user, so auth_user *)
(* is a sequence and the id is the index.  Profile columns (name, avatar,  *)
(* timestamps) decide nothing and are left out; the EMAIL_ column of       *)
(* auth_identity is written and never read, and is left out too.           *)
(*                                                                         *)
(* upsertIdentityUser runs in one transaction whose reads take InnoDB      *)
(* locks (SELECT ... FOR UPDATE): two concurrent first logins either       *)
(* serialise or one of them is rolled back, so the operation is one step.  *)
(***************************************************************************)
EXTENDS Naturals, Sequences, FiniteSets

CONSTANTS
    Emails,       \* normalised, valid e-mail addresses
    Subjects,     \* subjects issued by Google and by Authentik
    AdminEmails,  \* the values INIT_ADMIN_EMAIL has had over the restarts
    MaxUsers      \* bound on the number of rows of auth_user

ASSUME AccountsAssumption ==
    /\ AdminEmails \subseteq Emails
    /\ Emails \cap Subjects = {}
    /\ MaxUsers \in Nat

VARIABLES
    users,     \* auth_user joined with auth_local_credential
    identity   \* auth_identity: USER_ID_ of (PROVIDER_, SUBJECT_), 0 if no row

accountVars == <<users, identity>>

Providers == {"local", "google", "email_code", "authentik"}

\* A row of auth_user; password is true when auth_local_credential has a row.
UserRow == [email: Emails, provider: Providers, sub: Emails \cup Subjects,
            role: {"user", "admin"}, enabled: BOOLEAN, password: BOOLEAN]

\* The (PROVIDER_, SUBJECT_) pairs that upsertIdentityUser is called with.
IdentityKeys == ({"google"} \X Subjects) \cup ({"email_code"} \X Emails)

UserIds == DOMAIN users

AccountsTypeOK ==
    /\ users \in Seq(UserRow)
    /\ identity \in [IdentityKeys -> Nat]
    /\ \A k \in IdentityKeys : identity[k] # 0 => identity[k] \in UserIds

-----------------------------------------------------------------------------
(* Queries *)

\* Rows with a (AUTH_PROVIDER_, AUTH_SUB_): at most one, by the unique key
\* UK_AUTH_USER_PROVIDER_SUB.
BySubject(provider, sub) ==
    {u \in UserIds : users[u].provider = provider /\ users[u].sub = sub}

ByEmail(email) == {u \in UserIds : users[u].email = email}

\* ORDER BY (ROLE_ = 'admin') DESC, ID_ ASC
Precedes(u, v) ==
    \/ users[u].role = "admin" /\ users[v].role # "admin"
    \/ (users[u].role = "admin") = (users[v].role = "admin") /\ u <= v

\* The account a first verified login as email is linked to: none or one.
LinkTarget(email) == {u \in ByEmail(email) : \A v \in ByEmail(email) : Precedes(u, v)}

\* FindLocalUserByEmail: rows of the join with auth_local_credential.
LocalUsers(email) ==
    {u \in ByEmail(email) : users[u].provider = "local" /\ users[u].password}

NewUser(email, provider, sub, role, password) ==
    [email |-> email, provider |-> provider, sub |-> sub, role |-> role,
     enabled |-> TRUE, password |-> password]

\* INSERT INTO auth_user under UK_AUTH_USER_PROVIDER_SUB; the new id is uid.
InsertUser(row, uid) ==
    /\ BySubject(row.provider, row.sub) = {}
    /\ Len(users) < MaxUsers
    /\ uid = Len(users) + 1
    /\ users' = Append(users, row)

SetEmail(uid, email) == users' = [users EXCEPT ![uid].email = email]

-----------------------------------------------------------------------------
(* Mutants of the operations below: plausible mistakes in the same code. *)

\* Forgets the INSERT INTO auth_identity of a freshly created account.
CreateIdentityUserUnlinked(key, email, uid) ==
    /\ identity[key] = 0
    /\ ByEmail(email) = {}
    /\ InsertUser(NewUser(email, key[1], key[2], "user", FALSE), uid)
    /\ UNCHANGED identity

\* Looks the account up by e-mail on every login, not only on the first.
LoginKnownIdentityByEmail(key, email, uid) ==
    /\ identity[key] # 0
    /\ uid \in LinkTarget(email) \cup (IF ByEmail(email) = {} THEN {identity[key]} ELSE {})
    /\ SetEmail(uid, email)
    /\ identity' = [identity EXCEPT ![key] = uid]

\* Passes the arguments of the profile UPDATE in the wrong order.
LoginKnownIdentitySwapped(key, email, uid) ==
    /\ identity[key] # 0
    /\ uid = identity[key]
    /\ SetEmail(uid, key[1])
    /\ UNCHANGED identity

\* Takes over a row with the admin's address instead of inserting the
\* administrator under its own (AUTH_PROVIDER_, AUTH_SUB_).
EnsureAdminByEmail(email) ==
    /\ IF ByEmail(email) # {}
       THEN \E u \in ByEmail(email) :
               users' = [users EXCEPT ![u] = [@ EXCEPT !.role = "admin", !.password = TRUE]]
       ELSE \E u \in {Len(users) + 1} :
               InsertUser(NewUser(email, "local", email, "admin", TRUE), u)
    /\ UNCHANGED identity

-----------------------------------------------------------------------------
(* upsertIdentityUser(provider, subject, email): key is the pair, uid the  *)
(* ID_ of the row it returns.                                              *)

\* The identity is known: the account's EMAIL_ follows the provider.
LoginKnownIdentity(key, email, uid) ==
    /\ identity[key] # 0
    /\ uid = identity[key]
    /\ SetEmail(uid, email)
    /\ UNCHANGED identity

\* A first login with the address of an account: link the identity to it.
LinkIdentity(key, email, uid) ==
    /\ identity[key] = 0
    /\ uid \in LinkTarget(email)
    /\ identity' = [identity EXCEPT ![key] = uid]
    /\ SetEmail(uid, email)

\* A first login with an address no account has.
CreateIdentityUser(key, email, uid) ==
    /\ identity[key] = 0
    /\ ByEmail(email) = {}
    /\ InsertUser(NewUser(email, key[1], key[2], "user", FALSE), uid)
    /\ identity' = [identity EXCEPT ![key] = uid]

UpsertIdentityUser(key, email, uid) ==
    \/ LoginKnownIdentity(key, email, uid)
    \/ LinkIdentity(key, email, uid)
    \/ CreateIdentityUser(key, email, uid)

\* UpsertAuthentikUser, first statement: INSERT ... ON DUPLICATE KEY UPDATE.
\* No auth_identity row and no linking by e-mail.
UpsertAuthentikUser(subject, email) ==
    /\ \/ \E u \in BySubject("authentik", subject) : SetEmail(u, email)
       \/ \E u \in {Len(users) + 1} :
             InsertUser(NewUser(email, "authentik", subject, "user", FALSE), u)
    /\ UNCHANGED identity

\* EnsureAdmin: INSERT ... ON DUPLICATE KEY UPDATE ROLE_, then the credential
\* unless there is one.  EMAIL_ and ENABLED_ of an existing row stay.
EnsureAdmin(email) ==
    /\ \/ \E u \in BySubject("local", email) :
             users' = [users EXCEPT ![u] = [@ EXCEPT !.role = "admin", !.password = TRUE]]
       \/ \E u \in {Len(users) + 1} :
             InsertUser(NewUser(email, "local", email, "admin", TRUE), u)
    /\ UNCHANGED identity

\* An operator sets ENABLED_ in the database: no handler writes the column.
SetEnabled(uid, value) ==
    /\ users' = [users EXCEPT ![uid].enabled = value]
    /\ UNCHANGED identity

-----------------------------------------------------------------------------
AccountsInit ==
    /\ users = << >>
    /\ identity = [k \in IdentityKeys |-> 0]

AccountsNext ==
    \/ \E k \in IdentityKeys, e \in Emails, u \in 1 .. MaxUsers :
          (k[1] = "email_code" => k[2] = e) /\ UpsertIdentityUser(k, e, u)
    \/ \E s \in Subjects, e \in Emails : UpsertAuthentikUser(s, e)
    \/ \E e \in AdminEmails : EnsureAdmin(e)
    \/ \E u \in UserIds, b \in BOOLEAN : SetEnabled(u, b)

AccountsSpec == AccountsInit /\ [][AccountsNext]_accountVars

-----------------------------------------------------------------------------
(* Properties *)

\* An account that a Google or e-mail login created stays reachable by the
\* identity that created it: its auth_identity row exists and names it, after
\* any number of e-mail changes, links and restarts.  If it could fail, the
\* next login of that identity would hit UK_AUTH_USER_PROVIDER_SUB on INSERT
\* or land on another account.
OriginLinked ==
    \A u \in UserIds :
        users[u].provider \in {"google", "email_code"} =>
            identity[<<users[u].provider, users[u].sub>>] = u

\* Administrator rights belong to rows EnsureAdmin made from INIT_ADMIN_EMAIL
\* and to no account a provider login created, whatever address it presents.
AdminsAreConfigured ==
    \A u \in UserIds :
        users[u].role = "admin" =>
            users[u].provider = "local" /\ users[u].sub \in AdminEmails

\* A linked identity never moves to another account, and an account keeps its
\* id and its subject: a later change of the e-mail address at the provider,
\* or of other accounts' addresses, cannot hand the account to someone else.
IdentityNeverMoves ==
    [][/\ \A k \in IdentityKeys : identity[k] # 0 => identity'[k] = identity[k]
       /\ \A u \in UserIds :
             /\ users'[u].provider = users[u].provider
             /\ users'[u].sub = users[u].sub]_accountVars
=============================================================================
