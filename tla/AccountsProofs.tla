--------------------------- MODULE AccountsProofs ---------------------------
(***************************************************************************)
(* Proofs about Accounts, for any addresses, subjects, administrator       *)
(* addresses and any bound on the number of accounts.                      *)
(*                                                                         *)
(* Every step of Accounts does one of three things to auth_user and        *)
(* auth_identity: it appends a row, it changes one row in columns other    *)
(* than (AUTH_PROVIDER_, AUTH_SUB_), or it adds an auth_identity row.      *)
(* The lemmas AppendRow and UpdateRow say what the first two preserve.     *)
(***************************************************************************)
EXTENDS Accounts, SequenceTheorems, TLAPS

\* A row keeps its subject when a step updates other columns of it.
SameSubject(r, q) == r.provider = q.provider /\ r.sub = q.sub

\* Appending a row to auth_user leaves the other rows and ids alone.
LEMMA AppendRow ==
    ASSUME NEW row \in UserRow, NEW uid, users \in Seq(UserRow), InsertUser(row, uid)
    PROVE  /\ users' \in Seq(UserRow)
           /\ DOMAIN users' = DOMAIN users \cup {uid}
           /\ uid \notin DOMAIN users
           /\ uid \in Nat \ {0}
           /\ users'[uid] = row
           /\ \A u \in DOMAIN users : users'[u] = users[u]
BY AppendProperties, SMT DEF InsertUser

\* Replacing one row of auth_user leaves the ids and the other rows alone.
LEMMA UpdateRow ==
    ASSUME NEW row \in UserRow, NEW uid \in DOMAIN users, users \in Seq(UserRow),
           users' = [users EXCEPT ![uid] = row]
    PROVE  /\ users' \in Seq(UserRow)
           /\ DOMAIN users' = DOMAIN users
           /\ users'[uid] = row
           /\ \A u \in DOMAIN users : u # uid => users'[u] = users[u]
BY ExceptSeq, SMT

\* The operations that update a row replace it by a row of the same subject.
LEMMA SetEmailRow ==
    ASSUME NEW uid \in DOMAIN users, NEW email \in Emails, users \in Seq(UserRow),
           SetEmail(uid, email)
    PROVE  \E row \in UserRow : /\ users' = [users EXCEPT ![uid] = row]
                                /\ SameSubject(row, users[uid])
                                /\ row.role = users[uid].role
                                /\ row.enabled = users[uid].enabled
<1> DEFINE r == [users[uid] EXCEPT !.email = email]
<1>1. users[uid] \in UserRow
  BY ElementOfSeq, SMT
<1>2. /\ r \in UserRow
      /\ SameSubject(r, users[uid])
      /\ r.role = users[uid].role
      /\ r.enabled = users[uid].enabled
  BY <1>1, SMT DEF UserRow, SameSubject
<1>3. users' = [users EXCEPT ![uid] = r]
  BY DEF SetEmail
<1> QED
  BY <1>2, <1>3

-----------------------------------------------------------------------------
(* The inductive invariant and what a step never changes. *)

AccountsInv == AccountsTypeOK /\ OriginLinked /\ AdminsAreConfigured

\* Accounts and identities are only ever added; subjects never change.
Stable ==
    /\ DOMAIN users \subseteq DOMAIN users'
    /\ \A u \in DOMAIN users : SameSubject(users'[u], users[u])
    /\ \A k \in IdentityKeys : identity[k] # 0 => identity'[k] = identity[k]

KeepsEnabled == \A u \in DOMAIN users : users'[u].enabled = users[u].enabled

\* Updating a row without touching its subject, its role only to "admin" and
\* only of a configured administrator, preserves the invariant.
LEMMA UpdateKeeps ==
    ASSUME AccountsInv, NEW uid \in DOMAIN users, NEW row \in UserRow,
           users' = [users EXCEPT ![uid] = row],
           SameSubject(row, users[uid]),
           row.role = users[uid].role \/ (row.provider = "local" /\ row.sub \in AdminEmails),
           UNCHANGED identity
    PROVE  AccountsInv' /\ Stable
<1>1. /\ users \in Seq(UserRow)
      /\ users' \in Seq(UserRow)
      /\ DOMAIN users' = DOMAIN users
      /\ users'[uid] = row
      /\ \A u \in DOMAIN users : u # uid => users'[u] = users[u]
  BY UpdateRow DEF AccountsInv, AccountsTypeOK
<1>2. AccountsTypeOK'
  BY <1>1 DEF AccountsInv, AccountsTypeOK, UserIds
<1>3. \A u \in DOMAIN users : SameSubject(users'[u], users[u])
  BY <1>1 DEF SameSubject
<1>4. OriginLinked'
  BY <1>1, <1>3 DEF AccountsInv, OriginLinked, UserIds, SameSubject
<1>5. AdminsAreConfigured'
  BY <1>1, <1>3 DEF AccountsInv, AdminsAreConfigured, UserIds, SameSubject
<1> QED
  BY <1>1, <1>2, <1>3, <1>4, <1>5 DEF AccountsInv, Stable

\* Inserting an account of provider "local" or "authentik" preserves it.
LEMMA InsertKeeps ==
    ASSUME AccountsInv, NEW uid, NEW row \in UserRow, InsertUser(row, uid),
           row.provider \in {"local", "authentik"},
           row.role = "admin" => row.provider = "local" /\ row.sub \in AdminEmails,
           UNCHANGED identity
    PROVE  AccountsInv' /\ Stable /\ KeepsEnabled
<1>1. /\ users \in Seq(UserRow)
      /\ users' \in Seq(UserRow)
      /\ DOMAIN users' = DOMAIN users \cup {uid}
      /\ users'[uid] = row
      /\ \A u \in DOMAIN users : users'[u] = users[u]
  BY AppendRow DEF AccountsInv, AccountsTypeOK
<1>2. AccountsTypeOK'
  BY <1>1 DEF AccountsInv, AccountsTypeOK, UserIds
<1>3. OriginLinked'
  BY <1>1 DEF AccountsInv, OriginLinked, UserIds
<1>4. AdminsAreConfigured'
  BY <1>1 DEF AccountsInv, AdminsAreConfigured, UserIds
<1> QED
  BY <1>1, <1>2, <1>3, <1>4 DEF AccountsInv, Stable, KeepsEnabled, SameSubject

\* upsertIdentityUser: the returned account exists and owns the identity.
LEMMA UpsertIdentityUserStep ==
    ASSUME AccountsInv, NEW key \in IdentityKeys, NEW email \in Emails, NEW uid,
           UpsertIdentityUser(key, email, uid)
    PROVE  /\ AccountsInv' /\ Stable /\ KeepsEnabled
           /\ uid \in DOMAIN users' /\ identity'[key] = uid
<1>0. /\ users \in Seq(UserRow)
      /\ identity \in [IdentityKeys -> Nat]
      /\ \A k \in IdentityKeys : identity[k] # 0 => identity[k] \in DOMAIN users
  BY DEF AccountsInv, AccountsTypeOK, UserIds
<1>1. CASE LoginKnownIdentity(key, email, uid)
  <2>1. uid \in DOMAIN users /\ SetEmail(uid, email) /\ UNCHANGED identity
        /\ identity[key] = uid
    BY <1>0, <1>1 DEF LoginKnownIdentity
  <2>2. PICK row \in UserRow : /\ users' = [users EXCEPT ![uid] = row]
                               /\ SameSubject(row, users[uid])
                               /\ row.role = users[uid].role
                               /\ row.enabled = users[uid].enabled
    BY <2>1, <1>0, SetEmailRow
  <2>3. AccountsInv' /\ Stable
    BY <2>1, <2>2, UpdateKeeps
  <2>4. KeepsEnabled /\ DOMAIN users' = DOMAIN users
    BY <2>1, <2>2, <1>0, UpdateRow DEF KeepsEnabled
  <2> QED
    BY <2>1, <2>3, <2>4
<1>2. CASE LinkIdentity(key, email, uid)
  <2>1. uid \in DOMAIN users /\ SetEmail(uid, email) /\ identity[key] = 0
        /\ identity' = [identity EXCEPT ![key] = uid]
    BY <1>2 DEF LinkIdentity, LinkTarget, ByEmail, UserIds
  <2>2. PICK row \in UserRow : /\ users' = [users EXCEPT ![uid] = row]
                               /\ SameSubject(row, users[uid])
                               /\ row.role = users[uid].role
                               /\ row.enabled = users[uid].enabled
    BY <2>1, <1>0, SetEmailRow
  <2>3. /\ users' \in Seq(UserRow)
        /\ DOMAIN users' = DOMAIN users
        /\ users'[uid] = row
        /\ \A u \in DOMAIN users : u # uid => users'[u] = users[u]
    BY <2>1, <2>2, <1>0, UpdateRow
  <2>4. uid \in Nat
    BY <2>1, <1>0, LenProperties
  <2>5. \A u \in DOMAIN users : SameSubject(users'[u], users[u])
    BY <2>2, <2>3 DEF SameSubject
  <2>6. AccountsTypeOK'
    BY <1>0, <2>1, <2>3, <2>4 DEF AccountsTypeOK, UserIds
  <2>7. OriginLinked'
    <3> SUFFICES ASSUME NEW u \in DOMAIN users,
                        users[u].provider \in {"google", "email_code"}
                 PROVE  identity'[<<users[u].provider, users[u].sub>>] = u
      BY <2>3, <2>5 DEF OriginLinked, UserIds, SameSubject
    <3>1. identity[<<users[u].provider, users[u].sub>>] = u
      BY DEF AccountsInv, OriginLinked, UserIds
    <3>2. u # 0
      BY <1>0, LenProperties
    <3>3. key # <<users[u].provider, users[u].sub>>
      BY <2>1, <3>1, <3>2
    <3> QED
      BY <1>0, <2>1, <3>1, <3>3
  <2>8. AdminsAreConfigured'
    BY <2>2, <2>3, <2>5 DEF AccountsInv, AdminsAreConfigured, UserIds, SameSubject
  <2> QED
    BY <1>0, <2>1, <2>2, <2>3, <2>5, <2>6, <2>7, <2>8 DEF AccountsInv, Stable, KeepsEnabled
<1>3. CASE CreateIdentityUser(key, email, uid)
  <2> DEFINE row == NewUser(email, key[1], key[2], "user", FALSE)
  <2>0. /\ key[1] \in {"google", "email_code"}
        /\ key[2] \in Emails \cup Subjects
        /\ key = <<key[1], key[2]>>
    BY DEF IdentityKeys
  <2>1. row \in UserRow /\ SameSubject(row, [provider |-> key[1], sub |-> key[2]])
        /\ row.role = "user"
    BY <2>0 DEF UserRow, NewUser, Providers, SameSubject
  <2>2. InsertUser(row, uid) /\ identity[key] = 0
        /\ identity' = [identity EXCEPT ![key] = uid]
    BY <1>3 DEF CreateIdentityUser
  <2> HIDE DEF row
  <2>3. /\ users' \in Seq(UserRow)
        /\ DOMAIN users' = DOMAIN users \cup {uid}
        /\ uid \in Nat \ {0}
        /\ users'[uid] = row
        /\ \A u \in DOMAIN users : users'[u] = users[u]
    BY <1>0, <2>1, <2>2, AppendRow
  <2>4. AccountsTypeOK'
    BY <1>0, <2>2, <2>3 DEF AccountsTypeOK, UserIds
  <2>5. OriginLinked'
    <3> SUFFICES ASSUME NEW u \in DOMAIN users',
                        users'[u].provider \in {"google", "email_code"}
                 PROVE  identity'[<<users'[u].provider, users'[u].sub>>] = u
      BY DEF OriginLinked, UserIds
    <3>1. CASE u = uid
      BY <3>1, <1>0, <2>0, <2>1, <2>2, <2>3 DEF SameSubject
    <3>2. CASE u # uid
      <4>1. u \in DOMAIN users /\ users'[u] = users[u]
        BY <3>2, <2>3
      <4>2. identity[<<users[u].provider, users[u].sub>>] = u
        BY <4>1 DEF AccountsInv, OriginLinked, UserIds
      <4>3. u # 0
        BY <4>1, <1>0, LenProperties
      <4>4. key # <<users[u].provider, users[u].sub>>
        BY <2>2, <4>2, <4>3
      <4> QED
        BY <1>0, <2>2, <4>1, <4>2, <4>4
    <3> QED
      BY <3>1, <3>2
  <2>6. AdminsAreConfigured'
    BY <2>1, <2>3 DEF AccountsInv, AdminsAreConfigured, UserIds
  <2> QED
    BY <1>0, <2>2, <2>3, <2>4, <2>5, <2>6
       DEF AccountsInv, Stable, KeepsEnabled, SameSubject
<1> QED
  BY <1>1, <1>2, <1>3 DEF UpsertIdentityUser

\* UpsertAuthentikUser: afterwards the subject has an account.
LEMMA UpsertAuthentikUserStep ==
    ASSUME AccountsInv, NEW subject \in Subjects, NEW email \in Emails,
           UpsertAuthentikUser(subject, email)
    PROVE  AccountsInv' /\ Stable /\ KeepsEnabled
<1>0. users \in Seq(UserRow) /\ UNCHANGED identity
  BY DEF AccountsInv, AccountsTypeOK, UpsertAuthentikUser
<1>1. ASSUME NEW u \in DOMAIN users, SetEmail(u, email)
      PROVE  AccountsInv' /\ Stable /\ KeepsEnabled
  <2>1. PICK row \in UserRow : /\ users' = [users EXCEPT ![u] = row]
                               /\ SameSubject(row, users[u])
                               /\ row.role = users[u].role
                               /\ row.enabled = users[u].enabled
    BY <1>0, <1>1, SetEmailRow
  <2>2. KeepsEnabled
    BY <2>1, <1>0, UpdateRow DEF KeepsEnabled
  <2> QED
    BY <1>0, <2>1, <2>2, UpdateKeeps
<1>2. ASSUME NEW u, InsertUser(NewUser(email, "authentik", subject, "user", FALSE), u)
      PROVE  AccountsInv' /\ Stable /\ KeepsEnabled
  <2> DEFINE row == NewUser(email, "authentik", subject, "user", FALSE)
  <2>1. row \in UserRow /\ row.provider = "authentik" /\ row.role = "user"
    BY DEF NewUser, UserRow, Providers
  <2>2. InsertUser(row, u)
    BY <1>2
  <2> HIDE DEF row
  <2> QED
    BY <1>0, <2>1, <2>2, InsertKeeps
<1> QED
  BY <1>1, <1>2 DEF UpsertAuthentikUser, BySubject, UserIds

\* EnsureAdmin at a restart.
LEMMA EnsureAdminStep ==
    ASSUME AccountsInv, NEW email \in AdminEmails, EnsureAdmin(email)
    PROVE  AccountsInv' /\ Stable /\ KeepsEnabled
<1>0. users \in Seq(UserRow) /\ UNCHANGED identity /\ email \in Emails
  BY AccountsAssumption DEF AccountsInv, AccountsTypeOK, EnsureAdmin
<1>1. ASSUME NEW u \in BySubject("local", email),
             users' = [users EXCEPT ![u] = [@ EXCEPT !.role = "admin", !.password = TRUE]]
      PROVE  AccountsInv' /\ Stable /\ KeepsEnabled
  <2> DEFINE row == [users[u] EXCEPT !.role = "admin", !.password = TRUE]
  <2>1. u \in DOMAIN users /\ users[u].provider = "local" /\ users[u].sub = email
    BY DEF BySubject, UserIds
  <2>2. users[u] \in UserRow
    BY <2>1, <1>0, ElementOfSeq, LenProperties
  <2>3. /\ row \in UserRow /\ SameSubject(row, users[u])
        /\ row.provider = "local" /\ row.sub \in AdminEmails
        /\ row.enabled = users[u].enabled
    BY <2>1, <2>2 DEF UserRow, SameSubject
  <2>4. users' = [users EXCEPT ![u] = row]
    BY <1>1
  <2> HIDE DEF row
  <2>5. KeepsEnabled
    BY <1>0, <2>1, <2>3, <2>4, UpdateRow DEF KeepsEnabled
  <2> QED
    BY <1>0, <2>1, <2>3, <2>4, <2>5, UpdateKeeps
<1>2. ASSUME NEW u, InsertUser(NewUser(email, "local", email, "admin", TRUE), u)
      PROVE  AccountsInv' /\ Stable /\ KeepsEnabled
  <2> DEFINE row == NewUser(email, "local", email, "admin", TRUE)
  <2>1. row \in UserRow /\ row.provider = "local" /\ row.sub \in AdminEmails
    BY <1>0 DEF NewUser, UserRow, Providers
  <2>2. InsertUser(row, u)
    BY <1>2
  <2> HIDE DEF row
  <2> QED
    BY <1>0, <2>1, <2>2, InsertKeeps
<1> QED
  BY <1>1, <1>2 DEF EnsureAdmin

\* An operator switches an account: only ENABLED_ of that row changes.
LEMMA SetEnabledStep ==
    ASSUME AccountsInv, NEW uid \in UserIds, NEW value \in BOOLEAN, SetEnabled(uid, value)
    PROVE  /\ AccountsInv' /\ Stable
           /\ \A u \in UserIds : users'[u].enabled = IF u = uid THEN value ELSE users[u].enabled
<1> DEFINE row == [users[uid] EXCEPT !.enabled = value]
<1>1. users \in Seq(UserRow) /\ uid \in DOMAIN users /\ UNCHANGED identity
  BY DEF AccountsInv, AccountsTypeOK, UserIds, SetEnabled
<1>2. users[uid] \in UserRow
  BY <1>1, ElementOfSeq, LenProperties
<1>3. /\ row \in UserRow /\ SameSubject(row, users[uid])
      /\ row.role = users[uid].role /\ row.enabled = value
  BY <1>2 DEF UserRow, SameSubject
<1>4. users' = [users EXCEPT ![uid] = row]
  BY DEF SetEnabled
<1> HIDE DEF row
<1>5. AccountsInv' /\ Stable
  BY <1>1, <1>3, <1>4, UpdateKeeps
<1> QED
  BY <1>1, <1>3, <1>4, <1>5, UpdateRow DEF UserIds

-----------------------------------------------------------------------------
(* Theorems *)

\* The empty database satisfies the invariant.
LEMMA AccountsInitial == AccountsInit => AccountsInv
<1> SUFFICES ASSUME AccountsInit PROVE AccountsInv
  OBVIOUS
<1>1. users \in Seq(UserRow) /\ DOMAIN users = {}
  BY EmptySeq, LenProperties DEF AccountsInit
<1> QED
  BY <1>1 DEF AccountsInit, AccountsInv, AccountsTypeOK, OriginLinked,
              AdminsAreConfigured, UserIds

\* Every operation preserves the invariant and changes no subject or identity.
LEMMA AccountsStep == AccountsInv /\ [AccountsNext]_accountVars => AccountsInv' /\ Stable
<1> SUFFICES ASSUME AccountsInv, [AccountsNext]_accountVars
             PROVE  AccountsInv' /\ Stable
  OBVIOUS
<1>1. CASE UNCHANGED accountVars
  BY <1>1 DEF accountVars, AccountsInv, AccountsTypeOK, OriginLinked, AdminsAreConfigured,
              UserIds, Stable, SameSubject
<1>2. ASSUME NEW k \in IdentityKeys, NEW e \in Emails, NEW u, UpsertIdentityUser(k, e, u)
      PROVE  AccountsInv' /\ Stable
  BY <1>2, UpsertIdentityUserStep
<1>3. ASSUME NEW s \in Subjects, NEW e \in Emails, UpsertAuthentikUser(s, e)
      PROVE  AccountsInv' /\ Stable
  BY <1>3, UpsertAuthentikUserStep
<1>4. ASSUME NEW e \in AdminEmails, EnsureAdmin(e)
      PROVE  AccountsInv' /\ Stable
  BY <1>4, EnsureAdminStep
<1>5. ASSUME NEW u \in UserIds, NEW b \in BOOLEAN, SetEnabled(u, b)
      PROVE  AccountsInv' /\ Stable
  BY <1>5, SetEnabledStep
<1> QED
  BY <1>1, <1>2, <1>3, <1>4, <1>5 DEF AccountsNext

\* Type correctness, the reachability of created accounts and the origin of
\* administrator rights are invariants of the account operations.
THEOREM AccountsInvariant == AccountsSpec => []AccountsInv
<1>1. AccountsInit => AccountsInv
  BY AccountsInitial
<1>2. AccountsInv /\ [AccountsNext]_accountVars => AccountsInv'
  BY AccountsStep
<1> QED
  BY <1>1, <1>2, PTL DEF AccountsSpec

\* An account created by a Google or e-mail login stays reachable by the
\* identity that created it (upsertIdentityUser).
THEOREM OriginLinkedAlways == AccountsSpec => []OriginLinked
<1>1. AccountsInv => OriginLinked
  BY DEF AccountsInv
<1> QED
  BY <1>1, AccountsInvariant, PTL

\* Only EnsureAdmin makes administrators.
THEOREM AdminsAlwaysConfigured == AccountsSpec => []AdminsAreConfigured
<1>1. AccountsInv => AdminsAreConfigured
  BY DEF AccountsInv
<1> QED
  BY <1>1, AccountsInvariant, PTL

\* Identities and subjects stay where they are, in every step.
THEOREM IdentitiesNeverMove == AccountsSpec => IdentityNeverMoves
<1>1. AccountsInv /\ [AccountsNext]_accountVars =>
         [/\ \A k \in IdentityKeys : identity[k] # 0 => identity'[k] = identity[k]
          /\ \A u \in UserIds :
                /\ users'[u].provider = users[u].provider
                /\ users'[u].sub = users[u].sub]_accountVars
  BY AccountsStep DEF Stable, SameSubject, UserIds
<1> QED
  BY <1>1, AccountsInvariant, PTL DEF AccountsSpec, IdentityNeverMoves
=============================================================================
