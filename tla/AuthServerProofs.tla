-------------------------- MODULE AuthServerProofs --------------------------
(***************************************************************************)
(* Proofs about AuthServer, for any number of concurrent requests, tokens, *)
(* users and instants, and for every choice of endpoints.                  *)
(*                                                                         *)
(* Control ties a worker's program counter to the request it serves and to *)
(* what it has found so far; without it the types of the tables are not    *)
(* inductive.  Spending says that a consumed secret is held by at most one *)
(* worker or row.  Freshness says that what a worker has checked was still *)
(* good when its check began.  Ownership says whose the account is that   *)
(* a worker, a session or a ticket names, and AdminInv that whoever saves  *)
(* a feed is a configured administrator.                                   *)
(***************************************************************************)
EXTENDS AuthServer, AccountsProofs

\* What a worker knows at each of its calls.
ControlAt(w) ==
    /\ pc[w] \in {"findLocal", "saveCode", "consumeCode"} => req[w].email \in Emails
    /\ pc[w] = "consumeTicket" => req[w].secret \in TicketIds
    /\ pc[w] = "consumeState" => req[w].secret \in StateIds
    /\ pc[w] = "csrf" => req[w].kind \in {"desktopToken", "marketWrite", "adminSave", "logout"}
    /\ pc[w] = "user" => req[w].kind \in {"desktopContinue", "desktopToken", "marketRead",
                                          "marketWrite", "adminSave"}
    /\ pc[w] = "started" => req[w].kind = "desktopToken"
    /\ pc[w] = "issue" => req[w].kind \in GrantKinds
    /\ pc[w] \in {"csrf", "user", "started", "issue", "revoke"} => req[w].cookie \in SessionIds
    /\ pc[w] = "upsert" => key[w] \in IdentityKeys /\ mail[w] \in Emails
    /\ pc[w] = "readAuthentik" => key[w] \in {"authentik"} \X Subjects
    /\ pc[w] \in {"session", "ticket"} => who[w] \in UserIds

Control == \A w \in Workers : ControlAt(w)

TypeInv == TypeOK /\ AccountsInv /\ Control

\* The requests clients send are typed and begin at a call that fits them.
LEMMA RequestsTyped ==
    ASSUME NEW r \in Requests
    PROVE  /\ r \in Request
           /\ FirstCall[r.kind] \in Labels
           /\ FirstCall[r.kind] \in {"findLocal", "saveCode", "consumeCode"} => r.email \in Emails
           /\ FirstCall[r.kind] = "consumeTicket" => r.secret \in TicketIds
           /\ FirstCall[r.kind] = "consumeState" => r.secret \in StateIds
           /\ FirstCall[r.kind] = "csrf" => r.kind \in {"desktopToken", "logout"}
           /\ FirstCall[r.kind] = "user" =>
                 r.kind \in {"desktopContinue", "marketRead", "marketWrite", "adminSave"}
           /\ FirstCall[r.kind] \in {"csrf", "user"} => r.cookie \in SessionIds
           /\ FirstCall[r.kind] \notin {"started", "issue", "revoke", "upsert",
                                        "readAuthentik", "session", "ticket"}
BY DEF Requests, Req, Request, CookieKinds, PlainKinds, AllKinds, FirstCall, Labels

\* An answered worker is back in its initial state; the others are untouched.
LEMMA AnswerTyped ==
    ASSUME TypeInv, NEW w \in Workers, Answer(w)
    PROVE  /\ pc' \in [Workers -> Labels]
           /\ req' \in [Workers -> Request]
           /\ now' \in [Workers -> Times]
           /\ key' \in [Workers -> VerifiedKeys \cup {None}]
           /\ mail' \in [Workers -> Emails \cup {None}]
           /\ who' \in [Workers -> Nat]
           /\ started' \in [Workers -> Nat \cup {None}]
           /\ origin' \in [Workers -> Secrets \cup {None}]
           /\ dead' \in [Workers -> SUBSET SessionIds]
           /\ off' \in [Workers -> SUBSET Nat]
           /\ DOMAIN users \subseteq DOMAIN users' => Control'
<1>1. NoRequest \in Request
  BY DEF NoRequest, Req, Request, AllKinds
<1>2. 0 \in Times
  BY AuthServerAssumption DEF Times
<1>3. DOMAIN users \subseteq DOMAIN users' => Control'
  BY DEF Control, ControlAt, TypeInv, TypeOK, Answer, UserIds
<1> QED
  BY <1>1, <1>2, <1>3 DEF TypeInv, TypeOK, Answer, Labels

\* User ids are positive numbers.
LEMMA UserIdsAreNat == AccountsTypeOK => UserIds \subseteq Nat \ {0}
BY LenProperties DEF AccountsTypeOK, UserIds

\* A worker that makes its next call keeps its types if the call is a label.
LEMMA CallTyped ==
    ASSUME TypeInv, NEW w \in Workers, NEW label \in Labels, Call(w, label)
    PROVE  /\ pc' \in [Workers -> Labels] /\ now' \in [Workers -> Times]
           /\ dead' \in [Workers -> SUBSET SessionIds]
           /\ off' \in [Workers -> SUBSET Nat]
<1>1. {u \in UserIds : ~users[u].enabled} \in SUBSET Nat
  BY UserIdsAreNat DEF TypeInv, TypeOK
<1> QED
  BY <1>1 DEF TypeInv, TypeOK, Call

\* The branches of AfterCSRF and AfterUser.
LEMMA NextCalls ==
    /\ \A k \in {"desktopToken", "marketWrite", "adminSave", "logout"} :
          /\ AfterCSRF[k] \in {"user", "issue", "revoke"}
          /\ AfterCSRF[k] = "user" => k = "desktopToken"
          /\ AfterCSRF[k] = "issue" => k \in {"marketWrite", "adminSave"}
          /\ AfterCSRF[k] = "revoke" => k = "logout"
    /\ \A k \in {"desktopContinue", "desktopToken", "marketRead", "marketWrite", "adminSave"} :
          /\ AfterUser[k] \in {"started", "issue", "csrf", "ticket"}
          /\ AfterUser[k] = "started" => k = "desktopToken"
          /\ AfterUser[k] = "issue" => k = "marketRead"
          /\ AfterUser[k] = "csrf" => k \in {"marketWrite", "adminSave"}
          /\ AfterUser[k] = "ticket" => k = "desktopContinue"
BY DEF AfterCSRF, AfterUser

\* Rows of the session and ticket tables name users that exist.
RowsNameUsers ==
    /\ \A s \in SessionIds : sessions[s].status # "absent" => sessions[s].user \in UserIds
    /\ \A t \in TicketIds : tickets[t].status # "absent" => tickets[t].user \in UserIds

CoreInv == TypeInv /\ RowsNameUsers

\* Begin and Refuse.
LEMMA BeginCore ==
    ASSUME CoreInv, NEW w \in Workers, NEW r \in Requests, Begin(w, r)
    PROVE  CoreInv'
<1>1. AccountsInv' /\ RowsNameUsers'
  BY DEF CoreInv, TypeInv, Begin, accountVars, tables, AccountsInv, AccountsTypeOK,
         OriginLinked, AdminsAreConfigured, UserIds, RowsNameUsers
<1>3. TypeOK'
  BY <1>1, RequestsTyped, CallTyped
     DEF CoreInv, TypeInv, TypeOK, Begin, accountVars, tables, found, AccountsInv
<1>4. Control'
  BY RequestsTyped
     DEF CoreInv, TypeInv, TypeOK, Control, ControlAt, Begin, Call, accountVars, found, UserIds
<1> QED
  BY <1>1, <1>3, <1>4 DEF CoreInv, TypeInv

\* A step that leaves the accounts alone leaves what is said of them alone.
LEMMA AccountsFrame ==
    ASSUME AccountsInv, UNCHANGED accountVars
    PROVE  AccountsInv' /\ Stable /\ KeepsEnabled /\ UserIds' = UserIds
BY DEF accountVars, AccountsInv, AccountsTypeOK, OriginLinked, AdminsAreConfigured, UserIds,
       Stable, SameSubject, KeepsEnabled

\* The calls that only read and the calls that end a request.
LEMMA WorkerCore ==
    ASSUME CoreInv, NEW w \in Workers,
           \/ Refuse(w) \/ FindLocalUser(w) \/ SaveEmailCode(w) \/ ConsumeEmailCode(w)
           \/ SaveOAuthRequest(w) \/ ConsumeOAuthRequest(w) \/ GoogleIdentity(w)
           \/ CreateSession(w) \/ SaveDesktopSsoTicket(w) \/ RequireCSRF(w)
           \/ CurrentUser(w) \/ SessionStartedAt(w) \/ Issue(w) \/ RevokeSession(w)
    PROVE  CoreInv'
<1>0. TypeInv /\ TypeOK /\ RowsNameUsers /\ Control /\ ControlAt(w)
  BY DEF CoreInv, TypeInv, Control
<1>a. UNCHANGED accountVars /\ AccountsInv' /\ AccountsTypeOK' /\ UserIds' = UserIds
  BY AccountsFrame
     DEF CoreInv, TypeInv, AccountsInv, Refuse, FindLocalUser, SaveEmailCode,
         ConsumeEmailCode, SaveOAuthRequest, ConsumeOAuthRequest, GoogleIdentity,
         CreateSession, SaveDesktopSsoTicket, RequireCSRF, CurrentUser, SessionStartedAt,
         Issue, RevokeSession
<1>b. UserIds \subseteq Nat \ {0}
  BY <1>0, UserIdsAreNat DEF TypeOK
<1>c. \A t \in Times : t \in Nat
  BY DEF Times
<1>1. CASE Refuse(w)
  BY <1>0, <1>1, <1>a, AnswerTyped
     DEF CoreInv, TypeInv, TypeOK, Refuse, tables, RowsNameUsers, UserIds
<1>2. CASE FindLocalUser(w)
  <2>1. PICK u \in UserIds : who' = [who EXCEPT ![w] = u]
    BY <1>2 DEF FindLocalUser, LocalUsers, ByEmail
  <2>2. TypeOK'
    BY <1>0, <1>2, <1>a, <1>b, <2>1, CallTyped
       DEF TypeOK, FindLocalUser, tables, history, Labels
  <2>3. Control'
    BY <1>0, <1>2, <1>a, <2>1
       DEF TypeOK, Control, ControlAt, FindLocalUser, Call, history
  <2> QED
    BY <1>0, <1>2, <1>a, <2>2, <2>3 DEF CoreInv, TypeInv, RowsNameUsers, FindLocalUser, tables
<1>3. CASE SaveEmailCode(w)
  <2>1. PICK c \in CodeIds, d \in Digits, t \in now[w] .. clock :
           codes' = [codes EXCEPT
                ![c] = [status |-> "open", email |-> req[w].email,
                        hash |-> EmailCodeHash(req[w].email, d),
                        created |-> t, expires |-> now[w] + CodeTTL]]
    BY <1>3 DEF SaveEmailCode
  <2>2. t \in Nat /\ now[w] + CodeTTL \in Nat
    BY <1>0, <1>c, AuthServerAssumption DEF TypeOK
  <2>3. req[w].email \in Emails
    BY <1>0, <1>3 DEF ControlAt, SaveEmailCode
  <2>4. codes' \in [CodeIds -> CodeRow]
    BY <1>0, <2>1, <2>2, <2>3 DEF TypeOK, CodeRow, EmailCodeHash
  <2> QED
    BY <1>0, <1>3, <1>a, <2>4, AnswerTyped
       DEF CoreInv, TypeInv, TypeOK, SaveEmailCode, RowsNameUsers, UserIds
<1>4. CASE ConsumeEmailCode(w)
  <2>1. PICK c \in CodeIds : /\ codes' = [codes EXCEPT ![c].status = "consumed"]
                             /\ origin' = [origin EXCEPT ![w] = c]
    BY <1>4 DEF ConsumeEmailCode, NewestOpenCode
  <2>2. codes' \in [CodeIds -> CodeRow] /\ origin' \in [Workers -> Secrets \cup {None}]
    BY <1>0, <2>1 DEF TypeOK, CodeRow, Secrets
  <2>3. <<"email_code", req[w].email>> \in IdentityKeys /\ req[w].email \in Emails
    BY <1>0, <1>4 DEF ConsumeEmailCode, ControlAt, IdentityKeys
  <2>4. TypeOK'
    BY <1>0, <1>4, <1>a, <2>2, <2>3, CallTyped
       DEF TypeOK, ConsumeEmailCode, Labels, VerifiedKeys
  <2>5. Control'
    BY <1>0, <1>4, <1>a, <2>3 DEF TypeOK, Control, ControlAt, ConsumeEmailCode, Call
  <2> QED
    BY <1>0, <1>4, <1>a, <2>4, <2>5 DEF CoreInv, TypeInv, RowsNameUsers, ConsumeEmailCode
<1>5. CASE SaveOAuthRequest(w)
  <2>1. oauth' \in [StateIds -> OAuthRow]
    BY <1>0, <1>5, <1>c, AuthServerAssumption DEF TypeOK, SaveOAuthRequest, OAuthRow
  <2> QED
    BY <1>0, <1>5, <1>a, <2>1, AnswerTyped
       DEF CoreInv, TypeInv, TypeOK, SaveOAuthRequest, RowsNameUsers, UserIds
<1>6. CASE ConsumeOAuthRequest(w)
  <2>1. oauth' \in [StateIds -> OAuthRow] /\ origin' \in [Workers -> Secrets \cup {None}]
    BY <1>0, <1>6 DEF TypeOK, ControlAt, ConsumeOAuthRequest, OAuthRow, Secrets
  <2>2. TypeOK'
    BY <1>0, <1>6, <1>a, <2>1, CallTyped DEF TypeOK, ConsumeOAuthRequest, Labels, found
  <2>3. Control'
    BY <1>0, <1>6, <1>a DEF TypeOK, Control, ControlAt, ConsumeOAuthRequest, Call, found
  <2> QED
    BY <1>0, <1>6, <1>a, <2>2, <2>3 DEF CoreInv, TypeInv, RowsNameUsers, ConsumeOAuthRequest
<1>7. CASE GoogleIdentity(w)
  <2>1. PICK s \in Subjects, e \in Emails : /\ key' = [key EXCEPT ![w] = <<"google", s>>]
                                            /\ mail' = [mail EXCEPT ![w] = e]
    BY <1>7 DEF GoogleIdentity
  <2>2. <<"google", s>> \in IdentityKeys
    BY DEF IdentityKeys
  <2>3. TypeOK'
    BY <1>0, <1>7, <1>a, <2>1, <2>2, CallTyped
       DEF TypeOK, GoogleIdentity, Labels, VerifiedKeys, tables, history
  <2>4. Control'
    BY <1>0, <1>7, <1>a, <2>1, <2>2
       DEF TypeOK, Control, ControlAt, GoogleIdentity, Call
  <2> QED
    BY <1>0, <1>7, <1>a, <2>3, <2>4 DEF CoreInv, TypeInv, RowsNameUsers, GoogleIdentity, tables
<1>8. CASE CreateSession(w)
  <2>0. who[w] \in UserIds
    BY <1>0, <1>8 DEF ControlAt, CreateSession
  <2>1. PICK s \in SessionIds, t \in now[w] .. clock :
           sessions' = [sessions EXCEPT
                ![s] = [status |-> "live", user |-> who[w], created |-> t,
                        expires |-> now[w] + SessionTTL,
                        origin |-> origin[w], via |-> key[w]]]
    BY <1>8 DEF CreateSession
  <2>a. t \in Nat /\ now[w] + SessionTTL \in Nat
    BY <1>0, <1>c, AuthServerAssumption DEF TypeOK
  <2>2. sessions' \in [SessionIds -> SessionRow]
    BY <1>0, <2>1, <2>a DEF TypeOK, SessionRow
  <2>3. RowsNameUsers'
    BY <1>0, <1>8, <1>a, <2>0, <2>1 DEF TypeOK, RowsNameUsers, CreateSession
  <2> QED
    BY <1>0, <1>8, <1>a, <2>2, <2>3, AnswerTyped
       DEF CoreInv, TypeInv, TypeOK, CreateSession, UserIds
<1>9. CASE SaveDesktopSsoTicket(w)
  <2>0. who[w] \in UserIds
    BY <1>0, <1>9 DEF ControlAt, SaveDesktopSsoTicket
  <2>1. PICK t \in TicketIds :
           tickets' = [tickets EXCEPT
                ![t] = [status |-> "open", user |-> who[w],
                        expires |-> now[w] + TicketTTL,
                        origin |-> origin[w], via |-> key[w]]]
    BY <1>9 DEF SaveDesktopSsoTicket
  <2>2. tickets' \in [TicketIds -> TicketRow]
    BY <1>0, <2>1, <1>c, AuthServerAssumption DEF TypeOK, TicketRow
  <2>3. RowsNameUsers'
    BY <1>0, <1>9, <1>a, <2>0, <2>1 DEF TypeOK, RowsNameUsers, SaveDesktopSsoTicket
  <2> QED
    BY <1>0, <1>9, <1>a, <2>2, <2>3, AnswerTyped
       DEF CoreInv, TypeInv, TypeOK, SaveDesktopSsoTicket, UserIds
<1>10. CASE RequireCSRF(w)
  <2>1. TypeOK'
    BY <1>0, <1>10, <1>a, NextCalls, CallTyped
       DEF TypeOK, ControlAt, RequireCSRF, Labels, tables, found, history
  <2>2. Control'
    BY <1>0, <1>10, <1>a, NextCalls
       DEF TypeOK, Control, ControlAt, RequireCSRF, Call, found, GrantKinds
  <2> QED
    BY <1>0, <1>10, <1>a, <2>1, <2>2 DEF CoreInv, TypeInv, RowsNameUsers, RequireCSRF, tables
<1>11. CASE CurrentUser(w)
  <2>1. sessions[req[w].cookie].user \in UserIds
    BY <1>0, <1>11 DEF CurrentUser, ControlAt, RowsNameUsers, SessionValid
  <2>a. AfterUser[req[w].kind] \in Labels
    BY <1>0, <1>11, NextCalls DEF CurrentUser, ControlAt, Labels
  <2>2. TypeOK'
    BY <1>0, <1>11, <1>a, <1>b, <2>1, <2>a, CallTyped DEF TypeOK, CurrentUser, tables
  <2>3. Control'
    BY <1>0, <1>11, <1>a, <2>1, NextCalls
       DEF TypeOK, Control, ControlAt, CurrentUser, Call, GrantKinds
  <2> QED
    BY <1>0, <1>11, <1>a, <2>2, <2>3 DEF CoreInv, TypeInv, RowsNameUsers, CurrentUser, tables
<1>12. CASE SessionStartedAt(w)
  <2>1. sessions[req[w].cookie].created \in Nat
    BY <1>0, <1>12 DEF SessionStartedAt, ControlAt, TypeOK, SessionRow
  <2>2. TypeOK'
    BY <1>0, <1>12, <1>a, <2>1, CallTyped
       DEF TypeOK, SessionStartedAt, Labels, tables, history
  <2>3. Control'
    BY <1>0, <1>12, <1>a
       DEF TypeOK, Control, ControlAt, SessionStartedAt, Call, GrantKinds
  <2> QED
    BY <1>0, <1>12, <1>a, <2>2, <2>3
       DEF CoreInv, TypeInv, RowsNameUsers, SessionStartedAt, tables
<1>13. CASE Issue(w)
  <2>1. grants' \subseteq Grant
    BY <1>0, <1>13 DEF TypeOK, ControlAt, Issue, Grant
  <2> QED
    BY <1>0, <1>13, <1>a, <2>1, AnswerTyped
       DEF CoreInv, TypeInv, TypeOK, Issue, tables, RowsNameUsers, UserIds
<1>14. CASE RevokeSession(w)
  <2>1. /\ sessions' \in [SessionIds -> SessionRow]
        /\ \A s \in SessionIds : /\ sessions'[s].user = sessions[s].user
                                 /\ sessions[s].status = "absent" =>
                                       sessions'[s].status = "absent"
    <3> DEFINE c == req[w].cookie
    <3> DEFINE v == IF sessions[c].status = "absent" THEN sessions[c].status ELSE "revoked"
    <3>1. c \in SessionIds /\ sessions' = [sessions EXCEPT ![c].status = v]
      BY <1>0, <1>14 DEF ControlAt, RevokeSession
    <3>2. v \in {"absent", "live", "revoked"} /\ (sessions[c].status = "absent" => v = "absent")
      BY <1>0, <3>1 DEF TypeOK, SessionRow
    <3> HIDE DEF v, c
    <3> DEFINE row == [sessions[c] EXCEPT !.status = v]
    <3>3. sessions[c] \in SessionRow
      BY <1>0, <3>1 DEF TypeOK
    <3>4. row \in SessionRow /\ row.status = v /\ row.user = sessions[c].user
      BY <3>2, <3>3 DEF SessionRow
    <3>5. sessions' = [sessions EXCEPT ![c] = row] /\ sessions \in [SessionIds -> SessionRow]
      BY <1>0, <3>1 DEF TypeOK
    <3> HIDE DEF row
    <3> QED
      BY <3>1, <3>2, <3>4, <3>5
  <2>2. RowsNameUsers'
    BY <1>0, <1>14, <1>a, <2>1 DEF RowsNameUsers, RevokeSession
  <2> QED
    BY <1>0, <1>14, <1>a, <2>1, <2>2, AnswerTyped
       DEF CoreInv, TypeInv, TypeOK, RevokeSession, UserIds
<1> QED
  BY <1>1, <1>2, <1>3, <1>4, <1>5, <1>6, <1>7, <1>8, <1>9, <1>10, <1>11, <1>12, <1>13, <1>14

\* Both branches of Admit, for a user that exists after the step.
LEMMA AdmitCore ==
    ASSUME CoreInv, NEW w \in Workers, NEW u, NEW b, Admit(w, u, b),
           u \in UserIds', AccountsInv', DOMAIN users \subseteq DOMAIN users',
           UNCHANGED <<clock, tables, grants>>
    PROVE  CoreInv'
<1>0. TypeInv /\ TypeOK /\ RowsNameUsers /\ Control
  BY DEF CoreInv, TypeInv
<1>1. RowsNameUsers'
  BY <1>0 DEF RowsNameUsers, tables, UserIds
<1>2. AccountsTypeOK' /\ u \in Nat
  <2>1. AccountsTypeOK'
    BY DEF AccountsInv
  <2>2. (UserIds \subseteq Nat \ {0})'
    BY <2>1, LenProperties DEF AccountsTypeOK, UserIds
  <2> QED
    BY <2>1, <2>2
<1>3. CASE Answer(w)
  BY <1>0, <1>1, <1>2, <1>3, AnswerTyped DEF CoreInv, TypeInv, TypeOK, tables
<1>4. CASE /\ who' = [who EXCEPT ![w] = u]
           /\ Call(w, EntryCall(w))
           /\ UNCHANGED <<req, key, mail, started, origin>>
  <2>1. EntryCall(w) \in {"session", "ticket"}
    BY DEF EntryCall
  <2>2. TypeOK'
    BY <1>0, <1>2, <1>4, <2>1, CallTyped DEF TypeOK, tables, history, Labels
  <2>3. Control'
    BY <1>0, <1>4, <2>1 DEF TypeOK, Control, ControlAt, Call, UserIds
  <2> QED
    BY <1>1, <2>2, <2>3 DEF CoreInv, TypeInv
<1> QED
  BY <1>3, <1>4 DEF Admit

\* The calls that write accounts, and those that admit a user.
LEMMA AdmittingCore ==
    ASSUME CoreInv, NEW w \in Workers,
           \/ UpsertUser(w) \/ UpsertAuthentik(w) \/ ReadAuthentik(w)
           \/ ConsumeDesktopSsoTicket(w)
    PROVE  CoreInv' /\ Stable /\ KeepsEnabled
<1>0. TypeInv /\ TypeOK /\ RowsNameUsers /\ Control /\ ControlAt(w) /\ AccountsInv
  BY DEF CoreInv, TypeInv, Control
<1>1. CASE UpsertUser(w)
  <2>1. PICK u \in 1 .. MaxUsers : /\ UpsertIdentityUser(key[w], mail[w], u)
                                   /\ Admit(w, u, users'[u].enabled)
    BY <1>1 DEF UpsertUser
  <2>2. key[w] \in IdentityKeys /\ mail[w] \in Emails
    BY <1>0, <1>1 DEF ControlAt, UpsertUser
  <2>3. AccountsInv' /\ Stable /\ KeepsEnabled /\ u \in DOMAIN users'
    BY <1>0, <2>1, <2>2, UpsertIdentityUserStep
  <2> QED
    BY <1>1, <2>1, <2>3, AdmitCore DEF UpsertUser, Stable, UserIds
<1>2. CASE UpsertAuthentik(w)
  <2>1. PICK s \in Subjects, e \in Emails :
           /\ UpsertAuthentikUser(s, e)
           /\ key' = [key EXCEPT ![w] = <<"authentik", s>>]
           /\ mail' = [mail EXCEPT ![w] = e]
    BY <1>2 DEF UpsertAuthentik
  <2>2. AccountsInv' /\ Stable /\ KeepsEnabled
    BY <1>0, <2>1, UpsertAuthentikUserStep
  <2>3. TypeOK'
    BY <1>0, <1>2, <2>1, <2>2, CallTyped
       DEF TypeOK, UpsertAuthentik, VerifiedKeys, Labels, tables, history, AccountsInv
  <2>4. Control'
    BY <1>0, <1>2, <2>1, <2>2
       DEF TypeOK, Control, ControlAt, UpsertAuthentik, Call, Stable, UserIds
  <2>5. RowsNameUsers'
    BY <1>0, <1>2, <2>2 DEF RowsNameUsers, UpsertAuthentik, tables, Stable, UserIds
  <2> QED
    BY <2>2, <2>3, <2>4, <2>5 DEF CoreInv, TypeInv
<1>3. CASE ReadAuthentik(w)
  <2>1. AccountsInv' /\ Stable /\ KeepsEnabled /\ UserIds' = UserIds
    BY <1>0, <1>3, AccountsFrame DEF ReadAuthentik
  <2>2. PICK u \in UserIds : Admit(w, u, users[u].enabled)
    BY <1>3 DEF ReadAuthentik
  <2> QED
    BY <1>3, <2>1, <2>2, AdmitCore DEF ReadAuthentik, UserIds
<1>4. CASE ConsumeDesktopSsoTicket(w)
  <2> DEFINE t == req[w].secret
  <2>1. AccountsInv' /\ Stable /\ KeepsEnabled /\ UserIds' = UserIds
    BY <1>0, <1>4, AccountsFrame DEF ConsumeDesktopSsoTicket
  <2>2. t \in TicketIds /\ tickets[t].user \in UserIds
    BY <1>0, <1>4 DEF ConsumeDesktopSsoTicket, ControlAt, RowsNameUsers
  <2>3. tickets' \in [TicketIds -> TicketRow]
    <3>1. tickets' = [tickets EXCEPT ![t].status = "consumed"]
      BY <1>4 DEF ConsumeDesktopSsoTicket
    <3>2. tickets \in [TicketIds -> TicketRow]
      BY <1>0 DEF TypeOK
    <3> HIDE DEF t
    <3> QED
      BY <2>2, <3>1, <3>2 DEF TicketRow
  <2>4. RowsNameUsers'
    BY <1>0, <1>4, <2>1, <2>2 DEF ConsumeDesktopSsoTicket, TypeOK, RowsNameUsers
  <2>5. UserIds \subseteq Nat \ {0}
    BY <1>0, UserIdsAreNat DEF TypeOK
  <2>6. CASE Answer(w)
    BY <1>0, <1>4, <2>1, <2>3, <2>4, <2>6, AnswerTyped
       DEF CoreInv, TypeInv, TypeOK, ConsumeDesktopSsoTicket, Stable, AccountsInv
  <2>7. CASE /\ who' = [who EXCEPT ![w] = tickets[t].user]
             /\ origin' = [origin EXCEPT ![w] = t]
             /\ Call(w, "session")
             /\ UNCHANGED <<req, key, mail, started>>
    <3>1. TypeOK'
      BY <1>0, <1>4, <2>1, <2>2, <2>3, <2>5, <2>7, CallTyped
         DEF TypeOK, ConsumeDesktopSsoTicket, Labels, Secrets, AccountsInv
    <3>2. Control'
      BY <1>0, <2>1, <2>2, <2>7 DEF TypeOK, Control, ControlAt, Call
    <3> QED
      BY <2>1, <2>4, <3>1, <3>2 DEF CoreInv, TypeInv
  <2> QED
    BY <1>4, <2>1, <2>6, <2>7 DEF ConsumeDesktopSsoTicket
<1> QED
  BY <1>1, <1>2, <1>3, <1>4

\* Time, restarts, operators.
LEMMA EnvironmentCore ==
    ASSUME CoreInv,
           \/ Tick
           \/ \E e \in AdminEmails : Restart(e)
           \/ \E u \in UserIds, b \in BOOLEAN : SwitchAccount(u, b)
    PROVE  CoreInv' /\ Stable
<1>0. TypeInv /\ TypeOK /\ RowsNameUsers /\ Control /\ AccountsInv
  BY DEF CoreInv, TypeInv
<1>1. CASE Tick
  <2>1. AccountsInv' /\ Stable /\ UserIds' = UserIds
    BY <1>0, <1>1, AccountsFrame DEF Tick
  <2>2. clock' \in Times
    BY <1>0, <1>1, AuthServerAssumption DEF TypeOK, Tick, Times
  <2> QED
    BY <1>0, <1>1, <2>1, <2>2
       DEF CoreInv, TypeInv, TypeOK, Control, ControlAt, RowsNameUsers, Tick, tables,
           workerVars, found, history, AccountsInv
<1>2. ASSUME NEW e \in AdminEmails, Restart(e) PROVE CoreInv' /\ Stable
  <2>1. AccountsInv' /\ Stable
    BY <1>0, <1>2, EnsureAdminStep DEF Restart
  <2> QED
    BY <1>0, <1>2, <2>1
       DEF CoreInv, TypeInv, TypeOK, Control, ControlAt, RowsNameUsers, Restart, tables,
           workerVars, found, history, AccountsInv, Stable, UserIds
<1>3. ASSUME NEW u \in UserIds, NEW b \in BOOLEAN, SwitchAccount(u, b)
      PROVE  CoreInv' /\ Stable
  <2>1. AccountsInv' /\ Stable
    BY <1>0, <1>3, SetEnabledStep DEF SwitchAccount
  <2>2. off' \in [Workers -> SUBSET Nat]
    BY <1>0, <1>3 DEF TypeOK, SwitchAccount
  <2> QED
    BY <1>0, <1>3, <2>1, <2>2
       DEF CoreInv, TypeInv, TypeOK, Control, ControlAt, RowsNameUsers, SwitchAccount, tables,
           found, AccountsInv, Stable, UserIds
<1> QED
  BY <1>1, <1>2, <1>3

\* The initial state.
LEMMA CoreInitial == Init => CoreInv
<1> SUFFICES ASSUME Init PROVE CoreInv
  OBVIOUS
<1>1. AccountsInv
  BY AccountsInitial DEF Init
<1>2. NoRequest \in Request
  BY DEF NoRequest, Req, Request, AllKinds
<1>3. TypeOK
  BY <1>1, <1>2, AuthServerAssumption
     DEF Init, TypeOK, AccountsInv, Times, SessionRow, TicketRow, OAuthRow, CodeRow, Labels
<1>4. Control /\ RowsNameUsers
  BY DEF Init, Control, ControlAt, RowsNameUsers
<1> QED
  BY <1>1, <1>3, <1>4 DEF CoreInv, TypeInv

\* Every step preserves the core invariant.
LEMMA CoreStep == CoreInv /\ [Next]_vars => CoreInv'
<1> SUFFICES ASSUME CoreInv, [Next]_vars PROVE CoreInv'
  OBVIOUS
<1>1. CASE UNCHANGED vars
  BY <1>1 DEF vars, CoreInv, TypeInv, TypeOK, Control, ControlAt, RowsNameUsers, AccountsInv,
              AccountsTypeOK, OriginLinked, AdminsAreConfigured, UserIds
<1>2. ASSUME NEW w \in Workers, Step(w) PROVE CoreInv'
  BY <1>2, BeginCore, WorkerCore, AdmittingCore DEF Step
<1> QED
  BY <1>1, <1>2, EnvironmentCore DEF Next

\* The core invariant holds throughout.
THEOREM CoreInvariant == Spec => []CoreInv
<1> QED
  BY CoreInitial, CoreStep, PTL DEF Spec

\* Type correctness: every table and every worker of the server keeps its
\* type, whatever requests run concurrently.
THEOREM TypeCorrect == Spec => []TypeOK
<1>1. CoreInv => TypeOK
  BY DEF CoreInv, TypeInv
<1> QED
  BY <1>1, CoreInvariant, PTL

-----------------------------------------------------------------------------
(* One-time secrets.  A secret that has been consumed is in the hands of    *)
(* one worker, or recorded in one row, or lost with a refused request.      *)

Spent ==
    {t \in TicketIds : tickets[t].status = "consumed"}
        \cup {o \in StateIds : oauth[o].status = "consumed"}
        \cup {c \in CodeIds : codes[c].status = "consumed"}

Spending ==
    /\ \A w \in Workers : origin[w] # None => origin[w] \in Spent
    /\ \A v, w \in Workers : origin[v] = origin[w] => v = w \/ origin[v] = None
    /\ \A s \in SessionIds :
          sessions[s].origin # None =>
             sessions[s].origin \in Spent /\ \A w \in Workers : origin[w] # sessions[s].origin
    /\ \A t \in TicketIds :
          tickets[t].origin # None =>
             tickets[t].origin \in Spent /\ \A w \in Workers : origin[w] # tickets[t].origin
    /\ SingleUse

\* Nothing is acquired and nothing is recorded.
LEMMA SpendingKept ==
    ASSUME Spending, Spent \subseteq Spent',
           \A w \in Workers : origin'[w] \in {origin[w], None},
           \A s \in SessionIds : sessions'[s].origin = sessions[s].origin,
           \A t \in TicketIds : tickets'[t].origin = tickets[t].origin
    PROVE  Spending'
<1>1. SingleUse'
  BY DEF Spending, SingleUse
<1> HIDE DEF SingleUse
<1> QED
  BY <1>1 DEF Spending

\* Worker w consumes the unconsumed secret x.
LEMMA SpendingAcquired ==
    ASSUME CoreInv, Spending, NEW w \in Workers, NEW x \in Secrets, x \notin Spent,
           Spent' = Spent \cup {x},
           origin' = [origin EXCEPT ![w] = x],
           \A s \in SessionIds : sessions'[s].origin = sessions[s].origin,
           \A t \in TicketIds : tickets'[t].origin = tickets[t].origin
    PROVE  Spending'
<1>1. SingleUse'
  BY DEF Spending, SingleUse
<1>2. origin \in [Workers -> Secrets \cup {None}]
  BY DEF CoreInv, TypeInv, TypeOK
<1>3. \A v \in Workers : origin'[v] = IF v = w THEN x ELSE origin[v]
  BY <1>2
<1> HIDE DEF SingleUse
<1> QED
  BY <1>1, <1>3 DEF Spending

\* Worker w answers with a new session that records its secret.
LEMMA SpendingToSession ==
    ASSUME Spending, NEW w \in Workers, NEW s \in SessionIds, Spent' = Spent,
           \A v \in Workers : origin'[v] = IF v = w THEN None ELSE origin[v],
           \A q \in SessionIds : sessions'[q].origin = IF q = s THEN origin[w]
                                                       ELSE sessions[q].origin,
           \A t \in TicketIds : tickets'[t].origin = tickets[t].origin
    PROVE  Spending'
<1>1. SingleUse'
  BY DEF Spending, SingleUse
<1> HIDE DEF SingleUse
<1> QED
  BY <1>1 DEF Spending

\* Worker w answers with a new ticket that records its secret.
LEMMA SpendingToTicket ==
    ASSUME Spending, NEW w \in Workers, NEW t \in TicketIds, Spent' = Spent,
           \A v \in Workers : origin'[v] = IF v = w THEN None ELSE origin[v],
           \A q \in TicketIds : tickets'[q].origin = IF q = t THEN origin[w]
                                                     ELSE tickets[q].origin,
           \A s \in SessionIds : sessions'[s].origin = sessions[s].origin
    PROVE  Spending'
<1>1. SingleUse'
  BY DEF Spending, SingleUse
<1> HIDE DEF SingleUse
<1> QED
  BY <1>1 DEF Spending

\* Answer drops the worker's secret, and only its own.
LEMMA AnswerOrigin ==
    ASSUME CoreInv, NEW w \in Workers, Answer(w)
    PROVE  \A v \in Workers : origin'[v] = IF v = w THEN None ELSE origin[v]
BY DEF CoreInv, TypeInv, TypeOK, Answer

\* Every step preserves Spending.
LEMMA SpendingStep == CoreInv /\ Spending /\ [Next]_vars => Spending'
<1> SUFFICES ASSUME CoreInv, Spending, [Next]_vars PROVE Spending'
  OBVIOUS
<1>0. TypeOK
  BY DEF CoreInv, TypeInv
<1>1. CASE UNCHANGED <<tables, origin>>
  BY <1>1, SpendingKept DEF tables, Spent
<1>2. ASSUME NEW w \in Workers, Step(w) PROVE Spending'
  <2>0. ControlAt(w)
    BY DEF CoreInv, TypeInv, Control
  <2>1. CASE Refuse(w) \/ Issue(w)
    BY <2>1, AnswerOrigin, SpendingKept DEF Refuse, Issue, tables, Spent
  <2>2. CASE \/ FindLocalUser(w) \/ GoogleIdentity(w) \/ UpsertAuthentik(w)
             \/ RequireCSRF(w) \/ CurrentUser(w) \/ SessionStartedAt(w)
             \/ \E r \in Requests : Begin(w, r)
    BY <2>2, <1>1 DEF FindLocalUser, GoogleIdentity, UpsertAuthentik, RequireCSRF, CurrentUser,
                      SessionStartedAt, Begin, tables, history
  <2>3. CASE SaveEmailCode(w)
    <3>1. PICK c \in CodeIds : /\ codes[c].status = "absent"
                               /\ \A d \in CodeIds : d # c => codes'[d] = codes[d]
      BY <1>0, <2>3 DEF SaveEmailCode, TypeOK
    <3>2. Spent \subseteq Spent'
      BY <2>3, <3>1 DEF Spent, SaveEmailCode
    <3> QED
      BY <2>3, <3>2, AnswerOrigin, SpendingKept DEF SaveEmailCode
  <2>4. CASE ConsumeEmailCode(w)
    <3>1. PICK c \in CodeIds : /\ codes[c].status = "open"
                               /\ codes' = [codes EXCEPT ![c].status = "consumed"]
                               /\ origin' = [origin EXCEPT ![w] = c]
      BY <2>4 DEF ConsumeEmailCode, NewestOpenCode
    <3>2. /\ codes'[c].status = "consumed"
          /\ \A d \in CodeIds : d # c => codes'[d] = codes[d]
      BY <1>0, <3>1 DEF TypeOK, CodeRow
    <3>3. c \notin Spent /\ Spent' = Spent \cup {c} /\ c \in Secrets
      BY <2>4, <3>1, <3>2, AuthServerAssumption DEF Spent, Secrets, ConsumeEmailCode
    <3> QED
      BY <2>4, <3>1, <3>3, SpendingAcquired DEF ConsumeEmailCode
  <2>5. CASE SaveOAuthRequest(w)
    <3>1. PICK o \in StateIds : /\ oauth[o].status = "absent"
                                /\ \A d \in StateIds : d # o => oauth'[d] = oauth[d]
      BY <1>0, <2>5 DEF SaveOAuthRequest, TypeOK
    <3>2. Spent \subseteq Spent'
      BY <2>5, <3>1 DEF Spent, SaveOAuthRequest
    <3> QED
      BY <2>5, <3>2, AnswerOrigin, SpendingKept DEF SaveOAuthRequest
  <2>6. CASE ConsumeOAuthRequest(w)
    <3> DEFINE o == req[w].secret
    <3>1. /\ o \in StateIds /\ oauth[o].status = "open"
          /\ oauth' = [oauth EXCEPT ![o].status = "consumed"]
          /\ origin' = [origin EXCEPT ![w] = o]
      BY <2>0, <2>6 DEF ConsumeOAuthRequest, ControlAt
    <3> HIDE DEF o
    <3>2. /\ oauth'[o].status = "consumed"
          /\ \A d \in StateIds : d # o => oauth'[d] = oauth[d]
      BY <1>0, <3>1 DEF TypeOK, OAuthRow
    <3>3. o \notin Spent /\ Spent' = Spent \cup {o} /\ o \in Secrets
      BY <2>6, <3>1, <3>2, AuthServerAssumption DEF Spent, Secrets, ConsumeOAuthRequest
    <3> QED
      BY <2>6, <3>1, <3>3, SpendingAcquired DEF ConsumeOAuthRequest
  <2>7. CASE UpsertUser(w) \/ ReadAuthentik(w)
    <3>1. \A v \in Workers : origin'[v] \in {origin[v], None}
      BY <2>7, AnswerOrigin DEF UpsertUser, ReadAuthentik, Admit, history
    <3> QED
      BY <2>7, <3>1, SpendingKept DEF UpsertUser, ReadAuthentik, tables, Spent
  <2>8. CASE ConsumeDesktopSsoTicket(w)
    <3> DEFINE t == req[w].secret
    <3>1. /\ t \in TicketIds /\ tickets[t].status = "open"
          /\ tickets' = [tickets EXCEPT ![t].status = "consumed"]
          /\ UNCHANGED <<sessions, oauth, codes>>
          /\ origin' = [origin EXCEPT ![w] = t] \/ Answer(w)
      BY <2>0, <2>8 DEF ConsumeDesktopSsoTicket, ControlAt
    <3> HIDE DEF t
    <3>2. /\ tickets'[t].status = "consumed"
          /\ \A d \in TicketIds : d # t => tickets'[d] = tickets[d]
          /\ \A d \in TicketIds : tickets'[d].origin = tickets[d].origin
      BY <1>0, <3>1 DEF TypeOK, TicketRow
    <3>3. t \notin Spent /\ Spent' = Spent \cup {t} /\ t \in Secrets
      BY <3>1, <3>2, AuthServerAssumption DEF Spent, Secrets
    <3>4. CASE origin' = [origin EXCEPT ![w] = t]
      BY <3>1, <3>2, <3>3, <3>4, SpendingAcquired
    <3>5. CASE Answer(w)
      BY <3>1, <3>2, <3>3, <3>5, AnswerOrigin, SpendingKept
    <3> QED
      BY <3>1, <3>4, <3>5
  <2>9. CASE CreateSession(w)
    <3>1. PICK s \in SessionIds, t \in now[w] .. clock :
             sessions' = [sessions EXCEPT
                ![s] = [status |-> "live", user |-> who[w], created |-> t,
                        expires |-> now[w] + SessionTTL,
                        origin |-> origin[w], via |-> key[w]]]
      BY <2>9 DEF CreateSession
    <3>2. \A q \in SessionIds : sessions'[q].origin = IF q = s THEN origin[w]
                                                      ELSE sessions[q].origin
      BY <1>0, <3>1 DEF TypeOK
    <3> QED
      BY <2>9, <3>2, AnswerOrigin, SpendingToSession DEF CreateSession, Spent
  <2>10. CASE SaveDesktopSsoTicket(w)
    <3>1. PICK t \in TicketIds :
             /\ tickets[t].status = "absent"
             /\ tickets' = [tickets EXCEPT
                   ![t] = [status |-> "open", user |-> who[w],
                           expires |-> now[w] + TicketTTL,
                           origin |-> origin[w], via |-> key[w]]]
      BY <2>10 DEF SaveDesktopSsoTicket
    <3>2. /\ \A q \in TicketIds : tickets'[q].origin = IF q = t THEN origin[w]
                                                       ELSE tickets[q].origin
          /\ tickets'[t].status = "open"
          /\ \A q \in TicketIds : q # t => tickets'[q] = tickets[q]
      BY <1>0, <3>1 DEF TypeOK
    <3>3. Spent' = Spent
      BY <2>10, <3>1, <3>2 DEF Spent, SaveDesktopSsoTicket
    <3> QED
      BY <2>10, <3>2, <3>3, AnswerOrigin, SpendingToTicket DEF SaveDesktopSsoTicket
  <2>11. CASE RevokeSession(w)
    <3>1. \A q \in SessionIds : sessions'[q].origin = sessions[q].origin
      BY <1>0, <2>0, <2>11 DEF TypeOK, RevokeSession, SessionRow, ControlAt
    <3> QED
      BY <2>11, <3>1, AnswerOrigin, SpendingKept DEF RevokeSession, Spent
  <2> QED
    BY <1>2, <2>1, <2>2, <2>3, <2>4, <2>5, <2>6, <2>7, <2>8, <2>9, <2>10, <2>11 DEF Step
<1> QED
  BY <1>1, <1>2 DEF Next, vars, Tick, Restart, SwitchAccount, workerVars, history, tables

\* A one-time secret leads to at most one session or ticket, for any number of
\* concurrent requests that submit it and any failure between their calls.
THEOREM SecretsAreSingleUse == Spec => []SingleUse
<1>1. Init => Spending
  BY DEF Init, Spending, SingleUse, Spent
<1>2. Spending => SingleUse
  BY DEF Spending
<1> QED
  BY <1>1, <1>2, CoreInvariant, SpendingStep, PTL DEF Spec

-----------------------------------------------------------------------------
(* Sessions and accounts at the time of a request. *)

\* currentUser has succeeded for worker w.
UserChecked(w) ==
    \/ pc[w] \in {"started", "issue"}
    \/ pc[w] = "csrf" /\ req[w].kind \in {"marketWrite", "adminSave"}

\* What was over or disabled when the worker's last read began still is; what
\* the worker has found in it was not.
FreshAt(w) ==
    /\ \A s \in dead[w] : SessionOver(s, now[w])
    /\ \A u \in off[w] : u \in UserIds /\ ~users[u].enabled
    /\ pc[w] = "issue" => req[w].cookie \notin dead[w]
    /\ UserChecked(w) => /\ sessions[req[w].cookie].status # "absent"
                         /\ who[w] = sessions[req[w].cookie].user
    /\ UserChecked(w) \/ pc[w] \in {"session", "ticket"} => who[w] \notin off[w]
    /\ pc[w] # "issue" => started[w] = None
    /\ pc[w] = "issue" =>
          started[w] = IF req[w].kind = "desktopToken"
                       THEN sessions[req[w].cookie].created ELSE None

Freshness ==
    /\ \A w \in Workers : now[w] <= clock /\ FreshAt(w)
    /\ \A g \in grants : sessions[g.session].status # "absent"
    /\ RenewalKeepsStart

\* Rows of auth_session are inserted and deleted, never updated.
SessionsGrow ==
    \A s \in SessionIds :
        sessions[s].status # "absent" =>
            /\ sessions'[s].user = sessions[s].user
            /\ sessions'[s].created = sessions[s].created
            /\ sessions'[s].expires = sessions[s].expires
            /\ sessions'[s].status \in {sessions[s].status, "revoked"}

\* A worker that does not move keeps what it knows.
LEMMA FreshFrame ==
    ASSUME CoreInv, NEW v \in Workers, FreshAt(v), SessionsGrow,
           pc'[v] = pc[v], req'[v] = req[v], now'[v] = now[v], who'[v] = who[v],
           started'[v] = started[v], dead'[v] = dead[v], off'[v] \subseteq off[v],
           \A u \in off'[v] : u \in UserIds' /\ ~users'[u].enabled
    PROVE  FreshAt(v)'
<1>1. ControlAt(v) /\ dead[v] \subseteq SessionIds
  BY DEF CoreInv, TypeInv, TypeOK, Control
<1>2. \A s \in dead'[v] : SessionOver(s, now[v])'
  BY <1>1 DEF FreshAt, SessionOver, SessionsGrow
<1>3. UserChecked(v) => req[v].cookie \in SessionIds
  BY <1>1 DEF ControlAt, UserChecked
<1>4. UserChecked(v)' = UserChecked(v)
  BY DEF UserChecked
<1>5. pc[v] = "issue" => UserChecked(v)
  BY DEF UserChecked
<1> QED
  BY <1>2, <1>3, <1>4, <1>5 DEF FreshAt, SessionsGrow

\* A worker that has answered knows nothing.
LEMMA FreshAnswer ==
    ASSUME CoreInv, NEW w \in Workers, Answer(w)
    PROVE  FreshAt(w)' /\ now'[w] = 0
<1>1. /\ pc'[w] = "idle" /\ dead'[w] = {} /\ off'[w] = {} /\ started'[w] = None /\ now'[w] = 0
  BY DEF CoreInv, TypeInv, TypeOK, Answer
<1> QED
  BY <1>1 DEF FreshAt, UserChecked

\* Which steps write sessions, tickets and grants.
LEMMA WorkerWrites ==
    ASSUME NEW w \in Workers, Step(w)
    PROVE  /\ CreateSession(w) \/ RevokeSession(w) \/ UNCHANGED sessions
           /\ SaveDesktopSsoTicket(w) \/ ConsumeDesktopSsoTicket(w) \/ UNCHANGED tickets
           /\ Issue(w) \/ UNCHANGED grants
<1>1. CASE \/ \E r \in Requests : Begin(w, r)
           \/ Refuse(w) \/ FindLocalUser(w) \/ SaveEmailCode(w) \/ ConsumeEmailCode(w)
  BY <1>1 DEF Begin, Refuse, FindLocalUser, SaveEmailCode, ConsumeEmailCode, tables
<1>2. CASE \/ SaveOAuthRequest(w) \/ ConsumeOAuthRequest(w) \/ GoogleIdentity(w)
           \/ UpsertUser(w) \/ UpsertAuthentik(w) \/ ReadAuthentik(w)
  BY <1>2 DEF SaveOAuthRequest, ConsumeOAuthRequest, GoogleIdentity, UpsertUser,
              UpsertAuthentik, ReadAuthentik, tables
<1>3. CASE ConsumeDesktopSsoTicket(w) \/ CreateSession(w) \/ SaveDesktopSsoTicket(w)
  BY <1>3 DEF ConsumeDesktopSsoTicket, CreateSession, SaveDesktopSsoTicket
<1>4. CASE RequireCSRF(w) \/ CurrentUser(w) \/ SessionStartedAt(w)
  BY <1>4 DEF RequireCSRF, CurrentUser, SessionStartedAt, tables
<1>5. CASE Issue(w) \/ RevokeSession(w)
  BY <1>5 DEF Issue, RevokeSession, tables
<1> QED
  BY <1>1, <1>2, <1>3, <1>4, <1>5 DEF Step

\* The same for every step.
LEMMA NextWrites ==
    ASSUME [Next]_vars
    PROVE  /\ (\E w \in Workers : CreateSession(w) \/ RevokeSession(w)) \/ UNCHANGED sessions
           /\ (\E w \in Workers : SaveDesktopSsoTicket(w) \/ ConsumeDesktopSsoTicket(w))
                 \/ UNCHANGED tickets
           /\ (\E w \in Workers : Issue(w)) \/ UNCHANGED grants
<1>1. CASE \E w \in Workers : Step(w)
  BY <1>1, WorkerWrites
<1>2. CASE Tick \/ (\E e \in AdminEmails : Restart(e))
           \/ (\E u \in UserIds, b \in BOOLEAN : SwitchAccount(u, b))
  BY <1>2 DEF Tick, Restart, SwitchAccount, tables
<1> QED
  BY <1>1, <1>2 DEF Next, vars

\* No step updates a session row other than by deleting it.
LEMMA SessionsGrowStep ==
    ASSUME CoreInv, [Next]_vars
    PROVE  SessionsGrow
<1>0. TypeOK
  BY DEF CoreInv, TypeInv
<1>1. CASE UNCHANGED sessions
  BY <1>1 DEF SessionsGrow
<1>2. ASSUME NEW w \in Workers, CreateSession(w) PROVE SessionsGrow
  BY <1>0, <1>2 DEF SessionsGrow, CreateSession, TypeOK
<1>3. ASSUME NEW w \in Workers, RevokeSession(w) PROVE SessionsGrow
  <2> DEFINE c == req[w].cookie
  <2>1. c \in SessionIds /\ sessions \in [SessionIds -> SessionRow]
    BY <1>0, <1>3 DEF CoreInv, TypeInv, Control, ControlAt, RevokeSession, TypeOK
  <2>2. sessions[c].status # "absent" => sessions' = [sessions EXCEPT ![c].status = "revoked"]
    BY <1>3 DEF RevokeSession
  <2>3. \A s \in SessionIds : s # c => sessions'[s] = sessions[s]
    BY <2>1, <1>3 DEF RevokeSession
  <2> HIDE DEF c
  <2> QED
    BY <2>1, <2>2, <2>3 DEF SessionsGrow, SessionRow
<1> QED
  BY <1>1, <1>2, <1>3, NextWrites

\* A worker's step adds accounts and switches none on or off.
LEMMA WorkerAccounts ==
    ASSUME CoreInv, NEW w \in Workers, Step(w)
    PROVE  Stable /\ KeepsEnabled
<1>1. CASE UNCHANGED accountVars
  BY <1>1, AccountsFrame DEF CoreInv, TypeInv
<1> QED
  BY <1>1, AdmittingCore
     DEF Step, Begin, Refuse, FindLocalUser, SaveEmailCode, ConsumeEmailCode,
         SaveOAuthRequest, ConsumeOAuthRequest, GoogleIdentity, CreateSession,
         SaveDesktopSsoTicket, RequireCSRF, CurrentUser, SessionStartedAt, Issue, RevokeSession

\* A worker's step moves no other worker.
LEMMA OthersStill ==
    ASSUME CoreInv, NEW w \in Workers, Step(w), NEW v \in Workers, v # w
    PROVE  /\ pc'[v] = pc[v] /\ req'[v] = req[v] /\ now'[v] = now[v] /\ who'[v] = who[v]
           /\ started'[v] = started[v] /\ dead'[v] = dead[v] /\ off'[v] = off[v]
           /\ key'[v] = key[v] /\ mail'[v] = mail[v] /\ origin'[v] = origin[v]
<1>0. TypeOK
  BY DEF CoreInv, TypeInv
<1>1. CASE Answer(w)
  BY <1>0, <1>1 DEF TypeOK, Answer
<1>2. CASE \E r \in Requests : Begin(w, r)
  BY <1>0, <1>2 DEF TypeOK, Begin, Call, found
<1>3. CASE \/ FindLocalUser(w) \/ ConsumeEmailCode(w) \/ ConsumeOAuthRequest(w)
           \/ GoogleIdentity(w) \/ UpsertAuthentik(w) \/ RequireCSRF(w) \/ CurrentUser(w)
           \/ SessionStartedAt(w)
  BY <1>0, <1>3
     DEF TypeOK, Call, found, history, FindLocalUser, ConsumeEmailCode, ConsumeOAuthRequest,
         GoogleIdentity, UpsertAuthentik, RequireCSRF, CurrentUser, SessionStartedAt
<1>4. ASSUME NEW u, NEW b, Admit(w, u, b)
      PROVE  /\ pc'[v] = pc[v] /\ req'[v] = req[v] /\ now'[v] = now[v] /\ who'[v] = who[v]
             /\ started'[v] = started[v] /\ dead'[v] = dead[v] /\ off'[v] = off[v]
             /\ key'[v] = key[v] /\ mail'[v] = mail[v] /\ origin'[v] = origin[v]
  BY <1>0, <1>1, <1>4 DEF TypeOK, Admit, Call, history
<1>5. CASE UpsertUser(w) \/ ReadAuthentik(w)
  BY <1>4, <1>5 DEF UpsertUser, ReadAuthentik
<1>6. CASE ConsumeDesktopSsoTicket(w)
  BY <1>0, <1>1, <1>6 DEF TypeOK, ConsumeDesktopSsoTicket, Call
<1> QED
  BY <1>1, <1>2, <1>3, <1>5, <1>6
     DEF Step, Refuse, SaveEmailCode, SaveOAuthRequest, CreateSession, SaveDesktopSsoTicket,
         Issue, RevokeSession

\* A call notes what is over and disabled now if it is a read, and keeps what
\* the worker knew otherwise.
LEMMA FreshCall ==
    ASSUME CoreInv, Freshness, NEW w \in Workers, NEW label \in Labels, Call(w, label),
           SessionsGrow, Stable, KeepsEnabled
    PROVE  /\ pc'[w] = label /\ now'[w] = clock
           /\ \A s \in dead'[w] : SessionOver(s, now[w])'
           /\ \A u \in off'[w] : u \in UserIds' /\ ~users'[u].enabled
           /\ label \notin SessionReads => dead'[w] = dead[w]
           /\ label \notin EnabledReads => off'[w] = off[w]
<1>1. pc'[w] = label /\ now'[w] = clock /\ now[w] \in Nat /\ clock \in Nat
  BY DEF CoreInv, TypeInv, TypeOK, Call, Times
<1>2. FreshAt(w) /\ now[w] <= clock /\ dead[w] \subseteq SessionIds
  BY DEF Freshness, CoreInv, TypeInv, TypeOK
<1>3. \A s \in SessionIds : sessions[s].expires \in Nat
  BY DEF CoreInv, TypeInv, TypeOK, SessionRow
<1>a. /\ dead'[w] = IF label \in SessionReads THEN {s \in SessionIds : SessionOver(s, clock)}
                     ELSE dead[w]
      /\ off'[w] = IF label \in EnabledReads THEN {u \in UserIds : ~users[u].enabled} ELSE off[w]
  BY DEF CoreInv, TypeInv, TypeOK, Call
<1>b. \A s \in dead'[w] : s \in SessionIds /\ SessionOver(s, clock)
  BY <1>1, <1>2, <1>3, <1>a DEF FreshAt, SessionOver
<1>c. \A u \in off'[w] : u \in UserIds /\ ~users[u].enabled
  BY <1>2, <1>a DEF FreshAt
<1>4. \A s \in dead'[w] : SessionOver(s, now[w])'
  BY <1>1, <1>3, <1>b DEF SessionOver, SessionsGrow
<1>5. \A u \in off'[w] : u \in UserIds' /\ ~users'[u].enabled
  BY <1>c DEF Stable, KeepsEnabled, UserIds
<1> QED
  BY <1>1, <1>4, <1>5, <1>a

\* A session that passes the WHERE clause was not over when the read began.
LEMMA ValidIsFresh ==
    ASSUME CoreInv, Freshness, NEW w \in Workers, NEW s \in SessionIds,
           SessionValid(s, now[w])
    PROVE  s \notin dead[w]
<1>1. now[w] \in Nat /\ sessions[s].expires \in Nat
  BY DEF CoreInv, TypeInv, TypeOK, Times, SessionRow
<1> QED
  BY <1>1 DEF Freshness, FreshAt, SessionOver, SessionValid

\* A worker's own step keeps it fresh.
LEMMA FreshSelf ==
    ASSUME CoreInv, CoreInv', Freshness, NEW w \in Workers, Step(w), SessionsGrow
    PROVE  FreshAt(w)' /\ now'[w] <= clock
<1>0. TypeOK /\ ControlAt(w) /\ FreshAt(w) /\ now[w] <= clock
  BY DEF CoreInv, TypeInv, Control, Freshness
<1>a. Stable /\ KeepsEnabled
  BY WorkerAccounts
<1>n. clock \in Nat
  BY <1>0 DEF TypeOK, Times
<1>1. CASE Answer(w)
  BY <1>1, <1>n, FreshAnswer
<1>2. ASSUME NEW r \in Requests, Begin(w, r) PROVE FreshAt(w)' /\ now'[w] <= clock
  <2>1. /\ pc'[w] = FirstCall[r.kind] /\ req'[w] = r /\ now'[w] = clock
        /\ started'[w] = started[w] /\ pc[w] = "idle"
    BY <1>0, <1>2 DEF TypeOK, Begin, Call, found
  <2>2. /\ \A s \in dead'[w] : SessionOver(s, now[w])'
        /\ \A x \in off'[w] : x \in UserIds' /\ ~users'[x].enabled
    BY <1>2, <1>a, RequestsTyped, FreshCall DEF Begin
  <2>3. ~UserChecked(w)' /\ pc'[w] \notin {"session", "ticket", "issue"}
    BY <2>1, RequestsTyped DEF UserChecked
  <2> QED
    BY <1>0, <1>n, <2>1, <2>2, <2>3 DEF FreshAt
<1>3. ASSUME NEW u \in UserIds', NEW b, Admit(w, u, b), b <=> users'[u].enabled
      PROVE  FreshAt(w)' /\ now'[w] <= clock
  <2>1. CASE ~Answer(w)
    <3>1. /\ b /\ who' = [who EXCEPT ![w] = u] /\ Call(w, EntryCall(w))
          /\ UNCHANGED <<req, key, mail, started, origin>>
      BY <1>3, <2>1 DEF Admit
    <3>2. EntryCall(w) \in {"session", "ticket"} /\ EntryCall(w) \in Labels
      BY DEF EntryCall, Labels
    <3>3. /\ pc'[w] = EntryCall(w) /\ now'[w] = clock
          /\ \A s \in dead'[w] : SessionOver(s, now[w])'
          /\ \A x \in off'[w] : x \in UserIds' /\ ~users'[x].enabled
      BY <1>a, <3>1, <3>2, FreshCall
    <3>4. who'[w] = u /\ started'[w] = started[w]
      BY <1>0, <3>1 DEF TypeOK
    <3>5. pc[w] # "issue"
      BY <1>0, <3>1, <3>3, <3>2, <1>3 DEF Step, Begin, Refuse, FindLocalUser, SaveEmailCode,
         ConsumeEmailCode, SaveOAuthRequest, ConsumeOAuthRequest, GoogleIdentity, UpsertUser,
         UpsertAuthentik, ReadAuthentik, ConsumeDesktopSsoTicket, CreateSession,
         SaveDesktopSsoTicket, RequireCSRF, CurrentUser, SessionStartedAt, Issue,
         RevokeSession, Answer, TypeOK
    <3> QED
      BY <1>0, <1>3, <1>n, <3>1, <3>2, <3>3, <3>4, <3>5 DEF FreshAt, UserChecked
  <2> QED
    BY <1>1, <2>1
<1>4. CASE FindLocalUser(w)
  <2>1. PICK u \in UserIds : users[u].enabled /\ who' = [who EXCEPT ![w] = u]
    BY <1>4 DEF FindLocalUser, LocalUsers, ByEmail
  <2>2. Call(w, "session") /\ UNCHANGED <<users, req, started>> /\ pc[w] = "findLocal"
    BY <1>4 DEF FindLocalUser, accountVars
  <2>3. /\ pc'[w] = "session" /\ now'[w] = clock
        /\ \A s \in dead'[w] : SessionOver(s, now[w])'
        /\ \A x \in off'[w] : x \in UserIds' /\ ~users'[x].enabled
    BY <1>a, <2>2, FreshCall DEF Labels
  <2> QED
    BY <1>0, <1>n, <2>1, <2>2, <2>3 DEF TypeOK, FreshAt, UserChecked
<1>5. CASE \/ ConsumeEmailCode(w) \/ ConsumeOAuthRequest(w) \/ GoogleIdentity(w)
           \/ UpsertAuthentik(w)
  <2>1. PICK label \in {"upsert", "exchange", "readAuthentik"} :
           Call(w, label) /\ UNCHANGED started /\ pc[w] # "issue"
    BY <1>5 DEF ConsumeEmailCode, ConsumeOAuthRequest, GoogleIdentity, UpsertAuthentik, found
  <2>2. /\ pc'[w] = label /\ now'[w] = clock
        /\ \A s \in dead'[w] : SessionOver(s, now[w])'
        /\ \A x \in off'[w] : x \in UserIds' /\ ~users'[x].enabled
    BY <1>a, <2>1, FreshCall DEF Labels
  <2> QED
    BY <1>0, <1>n, <2>1, <2>2 DEF FreshAt, UserChecked
<1>6. CASE UpsertUser(w)
  <2>1. PICK u \in 1 .. MaxUsers : /\ UpsertIdentityUser(key[w], mail[w], u)
                                   /\ Admit(w, u, users'[u].enabled)
    BY <1>6 DEF UpsertUser
  <2>2. key[w] \in IdentityKeys /\ mail[w] \in Emails
    BY <1>0, <1>6 DEF ControlAt, UpsertUser
  <2>3. u \in UserIds'
    BY <2>1, <2>2, UpsertIdentityUserStep DEF CoreInv, TypeInv, UserIds
  <2> QED
    BY <1>3, <2>1, <2>3
<1>7. CASE ReadAuthentik(w)
  <2>1. PICK u \in UserIds : Admit(w, u, users[u].enabled)
    BY <1>7 DEF ReadAuthentik
  <2>2. UNCHANGED users /\ u \in UserIds'
    BY <1>7 DEF ReadAuthentik, accountVars, UserIds
  <2> QED
    BY <1>3, <2>1, <2>2
<1>8. CASE ConsumeDesktopSsoTicket(w) /\ ~Answer(w)
  <2> DEFINE u == tickets[req[w].secret].user
  <2>1. /\ users[u].enabled /\ who' = [who EXCEPT ![w] = u] /\ Call(w, "session")
        /\ UNCHANGED <<users, req, started>> /\ pc[w] = "consumeTicket"
    BY <1>8 DEF ConsumeDesktopSsoTicket, accountVars
  <2>2. /\ pc'[w] = "session" /\ now'[w] = clock
        /\ \A s \in dead'[w] : SessionOver(s, now[w])'
        /\ \A x \in off'[w] : x \in UserIds' /\ ~users'[x].enabled
    BY <1>a, <2>1, FreshCall DEF Labels
  <2>3. who'[w] = u
    BY <1>0, <2>1 DEF TypeOK
  <2> QED
    BY <1>0, <1>n, <2>1, <2>2, <2>3 DEF FreshAt, UserChecked
<1>9. CASE RequireCSRF(w)
  <2> DEFINE label == AfterCSRF[req[w].kind]
  <2>1. /\ Call(w, label) /\ SessionValid(req[w].cookie, now[w]) /\ pc[w] = "csrf"
        /\ UNCHANGED <<users, sessions, req, who, started>>
    BY <1>9 DEF RequireCSRF, accountVars, tables, found
  <2>2. /\ label \in {"user", "issue", "revoke"}
        /\ label = "issue" => req[w].kind \in {"marketWrite", "adminSave"}
    BY <1>0, <2>1, NextCalls DEF ControlAt
  <2>3. label \in Labels
    BY <2>2 DEF Labels
  <2> HIDE DEF label
  <2>4. /\ pc'[w] = label /\ now'[w] = clock
        /\ \A s \in dead'[w] : SessionOver(s, now[w])'
        /\ \A x \in off'[w] : x \in UserIds' /\ ~users'[x].enabled
        /\ label \notin SessionReads => dead'[w] = dead[w]
        /\ label \notin EnabledReads => off'[w] = off[w]
    BY <1>a, <2>1, <2>3, FreshCall
  <2>5. req[w].cookie \in SessionIds /\ req[w].cookie \notin dead[w]
    BY <1>0, <2>1, ValidIsFresh DEF ControlAt
  <2>6. label = "issue" => UserChecked(w)
    BY <2>1, <2>2 DEF UserChecked
  <2>7. UserChecked(w)' => label = "issue"
    BY <2>2, <2>4 DEF UserChecked
  <2> QED
    BY <1>0, <1>n, <2>1, <2>2, <2>4, <2>5, <2>6, <2>7
       DEF FreshAt, SessionReads, EnabledReads
<1>10. CASE CurrentUser(w)
  <2> DEFINE label == AfterUser[req[w].kind]
  <2> DEFINE u == sessions[req[w].cookie].user
  <2>1. /\ Call(w, label) /\ SessionValid(req[w].cookie, now[w]) /\ pc[w] = "user"
        /\ users[u].enabled /\ who' = [who EXCEPT ![w] = u]
        /\ UNCHANGED <<users, sessions, req, started>>
    BY <1>10 DEF CurrentUser, accountVars, tables
  <2>2. /\ label \in {"started", "issue", "csrf", "ticket"}
        /\ label = "issue" => req[w].kind = "marketRead"
    BY <1>0, <2>1, NextCalls DEF ControlAt
  <2>3. label \in Labels
    BY <2>2 DEF Labels
  <2> HIDE DEF label
  <2>4. /\ pc'[w] = label /\ now'[w] = clock
        /\ \A s \in dead'[w] : SessionOver(s, now[w])'
        /\ \A x \in off'[w] : x \in UserIds' /\ ~users'[x].enabled
        /\ label \notin SessionReads => dead'[w] = dead[w]
        /\ label \notin EnabledReads => off'[w] = off[w]
    BY <1>a, <2>1, <2>3, FreshCall
  <2>5. req[w].cookie \in SessionIds /\ req[w].cookie \notin dead[w]
    BY <1>0, <2>1, ValidIsFresh DEF ControlAt
  <2>6. who'[w] = u /\ sessions[req[w].cookie].status # "absent"
    BY <1>0, <2>1 DEF TypeOK, SessionValid
  <2> QED
    BY <1>0, <1>n, <2>1, <2>2, <2>4, <2>5, <2>6 DEF FreshAt, SessionReads, EnabledReads
<1>11. CASE SessionStartedAt(w)
  <2>1. /\ Call(w, "issue") /\ SessionValid(req[w].cookie, now[w]) /\ pc[w] = "started"
        /\ started' = [started EXCEPT ![w] = sessions[req[w].cookie].created]
        /\ UNCHANGED <<users, sessions, req, who>>
    BY <1>11 DEF SessionStartedAt, accountVars, tables
  <2>2. /\ pc'[w] = "issue" /\ now'[w] = clock
        /\ \A s \in dead'[w] : SessionOver(s, now[w])'
        /\ \A x \in off'[w] : x \in UserIds' /\ ~users'[x].enabled
        /\ dead'[w] = dead[w] /\ off'[w] = off[w]
    BY <1>a, <2>1, FreshCall DEF Labels, SessionReads, EnabledReads
  <2>3. req[w].cookie \in SessionIds /\ req[w].cookie \notin dead[w]
    BY <1>0, <2>1, ValidIsFresh DEF ControlAt
  <2>4. UserChecked(w) /\ req[w].kind = "desktopToken"
    BY <1>0, <2>1 DEF UserChecked, ControlAt
  <2>5. started'[w] = sessions[req[w].cookie].created
    BY <1>0, <2>1 DEF TypeOK
  <2> QED
    BY <1>0, <1>n, <2>1, <2>2, <2>3, <2>4, <2>5 DEF FreshAt
<1> QED
  BY <1>1, <1>2, <1>4, <1>5, <1>6, <1>7, <1>8, <1>9, <1>10, <1>11
     DEF Step, Refuse, SaveEmailCode, SaveOAuthRequest, CreateSession, SaveDesktopSsoTicket,
         Issue, RevokeSession

\* What was signed stays signed for a session that existed, with its start.
LEMMA GrantsKept ==
    ASSUME CoreInv, Freshness, SessionsGrow, UNCHANGED grants
    PROVE  /\ \A g \in grants' : sessions'[g.session].status # "absent"
           /\ RenewalKeepsStart'
<1>1. \A g \in grants : g.session \in SessionIds /\ sessions[g.session].status # "absent"
  BY DEF CoreInv, TypeInv, TypeOK, Grant, Freshness
<1>2. \A g \in grants : /\ sessions'[g.session].status # "absent"
                        /\ sessions'[g.session].created = sessions[g.session].created
  BY <1>1 DEF SessionsGrow
<1> QED
  BY <1>2 DEF Freshness, RenewalKeepsStart

\* A new grant is for a session that existed, and carries its start.
LEMMA GrantsIssued ==
    ASSUME CoreInv, Freshness, NEW w \in Workers, Issue(w)
    PROVE  /\ \A g \in grants' : sessions'[g.session].status # "absent"
           /\ RenewalKeepsStart'
<1>1. UNCHANGED sessions /\ pc[w] = "issue" /\ FreshAt(w)
  BY DEF Issue, tables, Freshness
<1>2. UserChecked(w)
  BY <1>1 DEF UserChecked
<1>3. /\ sessions[req[w].cookie].status # "absent"
      /\ started[w] = IF req[w].kind = "desktopToken"
                      THEN sessions[req[w].cookie].created ELSE None
  BY <1>1, <1>2 DEF FreshAt
<1>4. ASSUME NEW g \in grants'
      PROVE  /\ sessions'[g.session].status # "absent"
             /\ g.started = IF g.kind = "desktopToken" THEN sessions'[g.session].created ELSE None
  <2>1. CASE g \in grants
    BY <1>1, <2>1 DEF Freshness, RenewalKeepsStart
  <2>2. CASE g = [kind |-> req[w].kind, session |-> req[w].cookie,
                  user |-> who[w], started |-> started[w]]
    BY <1>1, <1>3, <2>2
  <2> QED
    BY <2>1, <2>2 DEF Issue
<1> QED
  BY <1>4 DEF RenewalKeepsStart

\* Every step preserves freshness.
LEMMA FreshnessStep == CoreInv /\ CoreInv' /\ Freshness /\ [Next]_vars => Freshness'
<1> SUFFICES ASSUME CoreInv, CoreInv', Freshness, [Next]_vars PROVE Freshness'
  OBVIOUS
<1>0. SessionsGrow
  BY SessionsGrowStep
<1>n. clock \in Nat /\ \A v \in Workers : now[v] \in Nat /\ now[v] <= clock /\ FreshAt(v)
  BY DEF CoreInv, TypeInv, TypeOK, Times, Freshness
<1>1. ASSUME NEW w \in Workers, Step(w) PROVE Freshness'
  <2>1. Stable /\ KeepsEnabled
    BY <1>1, WorkerAccounts
  <2>2. UNCHANGED clock
    BY <1>1 DEF Step, Begin, Refuse, FindLocalUser, SaveEmailCode, ConsumeEmailCode,
         SaveOAuthRequest, ConsumeOAuthRequest, GoogleIdentity, UpsertUser, UpsertAuthentik,
         ReadAuthentik, ConsumeDesktopSsoTicket, CreateSession, SaveDesktopSsoTicket,
         RequireCSRF, CurrentUser, SessionStartedAt, Issue, RevokeSession
  <2>3. ASSUME NEW v \in Workers PROVE now'[v] <= clock' /\ FreshAt(v)'
    <3>1. CASE v = w
      BY <1>0, <1>1, <2>2, <3>1, FreshSelf
    <3>2. CASE v # w
      <4>1. /\ pc'[v] = pc[v] /\ req'[v] = req[v] /\ now'[v] = now[v] /\ who'[v] = who[v]
            /\ started'[v] = started[v] /\ dead'[v] = dead[v] /\ off'[v] = off[v]
        BY <1>1, <3>2, OthersStill
      <4>2. \A u \in off'[v] : u \in UserIds' /\ ~users'[u].enabled
        BY <1>n, <2>1, <4>1 DEF FreshAt, Stable, KeepsEnabled, UserIds
      <4>3. FreshAt(v)'
        BY <1>0, <1>n, <4>1, <4>2, FreshFrame
      <4> QED
        BY <1>n, <2>2, <4>1, <4>3
    <3> QED
      BY <3>1, <3>2
  <2>4. Issue(w) \/ UNCHANGED grants
    BY <1>1, WorkerWrites
  <2> QED
    BY <1>0, <2>3, <2>4, GrantsKept, GrantsIssued DEF Freshness
<1>2. ASSUME /\ UNCHANGED <<pc, req, now, who, started, dead, grants>>
             /\ clock' \in Nat /\ clock <= clock'
             /\ \A v \in Workers : off'[v] \subseteq off[v]
             /\ \A v \in Workers : \A u \in off'[v] : u \in UserIds' /\ ~users'[u].enabled
      PROVE  Freshness'
  <2>1. \A v \in Workers : FreshAt(v)'
    BY <1>0, <1>2, <1>n, FreshFrame
  <2>2. \A v \in Workers : now'[v] <= clock'
    BY <1>2, <1>n
  <2> QED
    BY <1>0, <1>2, <2>1, <2>2, GrantsKept DEF Freshness
<1>a. \A v \in Workers : \A u \in off[v] : u \in UserIds /\ ~users[u].enabled
  BY <1>n DEF FreshAt
<1>b. clock' \in Nat
  BY DEF CoreInv, TypeInv, TypeOK, Times
<1>c. AccountsInv
  BY DEF CoreInv, TypeInv
<1>3. CASE UNCHANGED vars
  BY <1>2, <1>3, <1>a, <1>b, <1>n DEF vars, UserIds
<1>4. CASE Tick
  BY <1>2, <1>4, <1>a, <1>b, <1>n DEF Tick, accountVars, workerVars, found, history, UserIds
<1>5. ASSUME NEW e \in AdminEmails, Restart(e) PROVE Freshness'
  <2>1. Stable /\ KeepsEnabled
    BY <1>5, <1>c, EnsureAdminStep DEF Restart
  <2>2. UNCHANGED <<pc, req, now, who, started, dead, off, clock, grants>>
    BY <1>5 DEF Restart, workerVars, found, history
  <2>3. \A v \in Workers : \A u \in off'[v] : u \in UserIds' /\ ~users'[u].enabled
    BY <1>a, <2>1, <2>2 DEF Stable, KeepsEnabled, UserIds
  <2> QED
    BY <1>2, <1>b, <1>n, <2>2, <2>3
<1>6. ASSUME NEW x \in UserIds, NEW b \in BOOLEAN, SwitchAccount(x, b) PROVE Freshness'
  <2>1. /\ Stable
        /\ \A u \in UserIds : users'[u].enabled = IF u = x THEN b ELSE users[u].enabled
    BY <1>6, <1>c, SetEnabledStep DEF SwitchAccount
  <2>2. UNCHANGED <<pc, req, now, who, started, dead, clock, grants>>
    BY <1>6 DEF SwitchAccount, found
  <2>3. /\ \A v \in Workers : off'[v] \subseteq off[v]
        /\ b => \A v \in Workers : x \notin off'[v]
    BY <1>6 DEF SwitchAccount
  <2>4. \A u \in UserIds : u \in UserIds' /\ (u # x => users'[u].enabled = users[u].enabled)
    BY <2>1 DEF Stable, UserIds
  <2>5. ~b => ~users'[x].enabled
    BY <2>1
  <2>6. \A v \in Workers : \A u \in off'[v] : u \in UserIds' /\ ~users'[u].enabled
    BY <1>a, <2>3, <2>4, <2>5
  <2> QED
    BY <1>2, <1>b, <1>n, <2>2, <2>3, <2>6
<1> QED
  BY <1>1, <1>3, <1>4, <1>5, <1>6 DEF Next

\* Freshness holds throughout.
THEOREM FreshnessInvariant == Spec => []Freshness
<1>1. Init => Freshness
  BY DEF Init, Freshness, FreshAt, UserChecked, RenewalKeepsStart
<1> QED
  BY <1>1, CoreInvariant, FreshnessStep, PTL DEF Spec

\* Every desktop JWT carries the creation instant of its session, however the
\* renewals interleave with logouts and new logins (desktopSsoToken).
THEOREM RenewalsKeepStart == Spec => []RenewalKeepsStart
<1>1. Freshness => RenewalKeepsStart
  BY DEF Freshness
<1> QED
  BY <1>1, FreshnessInvariant, PTL

-----------------------------------------------------------------------------
(* Action properties. *)

\* No JWT is signed and no administrator write let through for a session that
\* was over before the last read of its request began, or for another user than
\* the session's.
THEOREM GrantsNeedLiveSessions == Spec => GrantNeedsLiveSession
<1>1. ASSUME CoreInv, Freshness, [Next]_vars, NEW g \in grants' \ grants
      PROVE  \E w \in Workers :
                /\ pc[w] = "issue" /\ pc'[w] = "idle"
                /\ g.session = req[w].cookie
                /\ g.session \notin dead[w]
                /\ g.user = sessions[g.session].user
  <2>1. PICK w \in Workers : Issue(w)
    BY <1>1, NextWrites
  <2>2. g = [kind |-> req[w].kind, session |-> req[w].cookie,
             user |-> who[w], started |-> started[w]]
    BY <1>1, <2>1 DEF Issue
  <2>3. pc[w] = "issue" /\ pc'[w] = "idle"
    BY <1>1, <2>1 DEF Issue, Answer, CoreInv, TypeInv, TypeOK
  <2>4. req[w].cookie \notin dead[w] /\ who[w] = sessions[req[w].cookie].user
    BY <1>1, <2>3 DEF Freshness, FreshAt, UserChecked
  <2> QED
    BY <2>2, <2>3, <2>4
<1>2. CoreInv /\ Freshness /\ [Next]_vars =>
         [\A g \in grants' \ grants :
             \E w \in Workers :
                /\ pc[w] = "issue" /\ pc'[w] = "idle"
                /\ g.session = req[w].cookie
                /\ g.session \notin dead[w]
                /\ g.user = sessions[g.session].user]_vars
  BY <1>1
<1> QED
  BY <1>2, CoreInvariant, FreshnessInvariant, PTL DEF Spec, GrantNeedsLiveSession

\* A worker that creates a row or a grant for u acts for u and moves on.
LEMMA CreatorActs ==
    ASSUME CoreInv, Freshness, NEW w \in Workers, Answer(w),
           pc[w] \in {"session", "ticket", "issue"}
    PROVE  pc'[w] # pc[w] /\ ActsFor(w, who[w])
<1>1. pc'[w] = "idle"
  BY DEF CoreInv, TypeInv, TypeOK, Answer
<1>2. who[w] \notin off[w]
  BY DEF Freshness, FreshAt, UserChecked
<1> QED
  BY <1>1, <1>2 DEF ActsFor

\* No session, ticket, JWT or administrator write comes out for an account that
\* was disabled from before the request's check of ENABLED_ began until then.
THEOREM DisabledAccountsStayOut == Spec => DisabledStaysOut
<1>1. ASSUME CoreInv, Freshness, [Next]_vars, NEW s \in SessionIds,
             sessions[s].status = "absent", sessions'[s].status # "absent"
      PROVE  \E w \in Workers : pc'[w] # pc[w] /\ ActsFor(w, sessions'[s].user)
  <2>0. TypeOK
    BY <1>1 DEF CoreInv, TypeInv
  <2>1. ASSUME NEW w \in Workers, RevokeSession(w) PROVE FALSE
    BY <1>1, <2>0, <2>1 DEF RevokeSession, TypeOK, SessionRow
  <2>2. PICK w \in Workers : CreateSession(w)
    BY <1>1, <2>1, NextWrites
  <2>3. sessions'[s].user = who[w]
    BY <1>1, <2>0, <2>2 DEF CreateSession, TypeOK
  <2> QED
    BY <1>1, <2>2, <2>3, CreatorActs DEF CreateSession
<1>2. ASSUME CoreInv, Freshness, [Next]_vars, NEW t \in TicketIds,
             tickets[t].status = "absent", tickets'[t].status # "absent"
      PROVE  \E w \in Workers : pc'[w] # pc[w] /\ ActsFor(w, tickets'[t].user)
  <2>0. TypeOK
    BY <1>2 DEF CoreInv, TypeInv
  <2>1. ASSUME NEW w \in Workers, ConsumeDesktopSsoTicket(w) PROVE FALSE
    BY <1>2, <2>0, <2>1 DEF ConsumeDesktopSsoTicket, TypeOK, TicketRow
  <2>2. PICK w \in Workers : SaveDesktopSsoTicket(w)
    BY <1>2, <2>1, NextWrites
  <2>3. tickets'[t].user = who[w]
    BY <1>2, <2>0, <2>2 DEF SaveDesktopSsoTicket, TypeOK
  <2> QED
    BY <1>2, <2>2, <2>3, CreatorActs DEF SaveDesktopSsoTicket
<1>3. ASSUME CoreInv, Freshness, [Next]_vars, NEW g \in grants' \ grants
      PROVE  \E w \in Workers : pc'[w] # pc[w] /\ ActsFor(w, g.user)
  <2>1. PICK w \in Workers : Issue(w)
    BY <1>3, NextWrites
  <2>2. g.user = who[w]
    BY <1>3, <2>1 DEF Issue
  <2> QED
    BY <1>3, <2>1, <2>2, CreatorActs DEF Issue
<1>4. CoreInv /\ Freshness /\ [Next]_vars =>
         [/\ \A s \in SessionIds :
                sessions[s].status = "absent" /\ sessions'[s].status # "absent" =>
                   \E w \in Workers : pc'[w] # pc[w] /\ ActsFor(w, sessions'[s].user)
          /\ \A t \in TicketIds :
                tickets[t].status = "absent" /\ tickets'[t].status # "absent" =>
                   \E w \in Workers : pc'[w] # pc[w] /\ ActsFor(w, tickets'[t].user)
          /\ \A g \in grants' \ grants :
                \E w \in Workers : pc'[w] # pc[w] /\ ActsFor(w, g.user)]_vars
  BY <1>1, <1>2, <1>3
<1> QED
  BY <1>4, CoreInvariant, FreshnessInvariant, PTL DEF Spec, DisabledStaysOut

-----------------------------------------------------------------------------
(* Whose session is it?  A row names the identity and the secret behind it; *)
(* so does the worker that is about to write it.                            *)

\* What worker w has proved, at each of its calls.
OwnershipAt(w) ==
    /\ pc[w] \notin {"upsert", "readAuthentik", "session", "ticket"} => key[w] = None
    /\ pc[w] = "upsert" /\ key[w][1] = "email_code" => key[w][2] = mail[w]
    /\ pc[w] \in {"session", "ticket"} /\ key[w] # None => Owner(key[w], who[w])
    /\ origin[w] \in TicketIds =>
          pc[w] = "session" /\ who[w] = tickets[origin[w]].user
    /\ origin[w] \in CodeIds =>
          /\ pc[w] \in {"upsert", "session", "ticket"}
          /\ key[w] = <<"email_code", codes[origin[w]].email>>

\* What a row records; only rows that have been inserted name an identity.
SessionOwned(s) ==
    /\ sessions[s].via # None =>
          sessions[s].status # "absent" /\ Owner(sessions[s].via, sessions[s].user)
    /\ sessions[s].origin \in TicketIds =>
          sessions[s].user = tickets[sessions[s].origin].user
    /\ sessions[s].origin \in CodeIds =>
          sessions[s].via = <<"email_code", codes[sessions[s].origin].email>>

TicketOwned(t) ==
    tickets[t].via # None =>
        tickets[t].status # "absent" /\ Owner(tickets[t].via, tickets[t].user)

Ownership ==
    /\ \A w \in Workers : OwnershipAt(w)
    /\ \A s \in SessionIds : SessionOwned(s)
    /\ \A t \in TicketIds : TicketOwned(t)

\* Tickets keep their user and codes their mailbox once they are saved.
SecretsKept ==
    /\ \A t \in TicketIds : tickets[t].status # "absent" => tickets'[t].user = tickets[t].user
    /\ \A c \in CodeIds : codes[c].status # "absent" => codes'[c].email = codes[c].email

\* An account stays the owner of an identity.
LEMMA OwnerKept ==
    ASSUME CoreInv, Stable, NEW k, NEW u \in UserIds, Owner(k, u)
    PROVE  Owner(k, u)'
<1>1. UserIds \subseteq Nat \ {0}
  BY UserIdsAreNat DEF CoreInv, TypeInv, TypeOK
<1>2. CASE k \in IdentityKeys /\ identity[k] = u
  BY <1>1, <1>2 DEF Stable, Owner
<1>3. CASE k \in {"authentik"} \X Subjects /\ u \in BySubject("authentik", k[2])
  BY <1>3 DEF Stable, SameSubject, Owner, BySubject, UserIds
<1> QED
  BY <1>2, <1>3 DEF Owner

\* A consumed secret is a row that has been saved.
LEMMA SpentIsSaved ==
    ASSUME NEW x \in Spent
    PROVE  /\ x \in TicketIds => tickets[x].status # "absent"
           /\ x \in CodeIds => codes[x].status # "absent"
BY AuthServerAssumption DEF Spent

\* A worker that does not move keeps what it has proved.
LEMMA OwnershipFrame ==
    ASSUME CoreInv, Spending, Stable, SecretsKept, NEW v \in Workers, OwnershipAt(v),
           pc'[v] = pc[v], key'[v] = key[v], mail'[v] = mail[v], who'[v] = who[v],
           origin'[v] = origin[v]
    PROVE  OwnershipAt(v)'
<1>1. pc[v] \in {"session", "ticket"} => who[v] \in UserIds
  BY DEF CoreInv, TypeInv, Control, ControlAt
<1>2. pc[v] \in {"session", "ticket"} /\ key[v] # None => Owner(key[v], who[v])'
  BY <1>1, OwnerKept DEF OwnershipAt
<1>3. origin[v] # None => origin[v] \in Spent
  BY DEF Spending
<1>4. /\ origin[v] \in TicketIds => tickets'[origin[v]].user = tickets[origin[v]].user
      /\ origin[v] \in CodeIds => codes'[origin[v]].email = codes[origin[v]].email
  BY <1>3, SpentIsSaved, AuthServerAssumption DEF SecretsKept
<1> QED
  BY <1>2, <1>4 DEF OwnershipAt, Owner, BySubject

\* What is said of a row holds while the row is not inserted anew.
LEMMA SessionOwnedKept ==
    ASSUME CoreInv, Spending, Stable, SecretsKept, NEW s \in SessionIds, SessionOwned(s),
           sessions'[s].user = sessions[s].user, sessions'[s].via = sessions[s].via,
           sessions'[s].origin = sessions[s].origin,
           sessions[s].status # "absent" => sessions'[s].status # "absent"
    PROVE  SessionOwned(s)'
<1>1. sessions[s].via # None =>
         sessions[s].user \in UserIds /\ Owner(sessions[s].via, sessions[s].user)
  BY DEF SessionOwned, CoreInv, RowsNameUsers
<1>2. sessions'[s].via # None => Owner(sessions[s].via, sessions[s].user)'
  BY <1>1, OwnerKept
<1>3. sessions[s].origin # None => sessions[s].origin \in Spent
  BY DEF Spending
<1>4. /\ sessions[s].origin \in CodeIds =>
            codes'[sessions[s].origin].email = codes[sessions[s].origin].email
      /\ sessions[s].origin \in TicketIds =>
            tickets'[sessions[s].origin].user = tickets[sessions[s].origin].user
  BY <1>3, SpentIsSaved, AuthServerAssumption DEF SecretsKept
<1> QED
  BY <1>2, <1>4 DEF SessionOwned

LEMMA TicketOwnedKept ==
    ASSUME CoreInv, Stable, NEW t \in TicketIds, TicketOwned(t),
           tickets'[t].user = tickets[t].user, tickets'[t].via = tickets[t].via,
           tickets[t].status # "absent" => tickets'[t].status # "absent"
    PROVE  TicketOwned(t)'
<1>1. tickets[t].via # None =>
         tickets[t].user \in UserIds /\ Owner(tickets[t].via, tickets[t].user)
  BY DEF TicketOwned, CoreInv, RowsNameUsers
<1>2. tickets'[t].via # None => Owner(tickets[t].via, tickets[t].user)'
  BY <1>1, OwnerKept
<1> QED
  BY <1>2 DEF TicketOwned

\* A worker that has answered has proved nothing.
LEMMA OwnershipAnswer ==
    ASSUME CoreInv, NEW w \in Workers, Answer(w)
    PROVE  OwnershipAt(w)'
<1>1. pc'[w] = "idle" /\ key'[w] = None /\ origin'[w] = None
  BY DEF CoreInv, TypeInv, TypeOK, Answer
<1> QED
  BY <1>1, AuthServerAssumption DEF OwnershipAt

\* No step changes the user of a saved ticket or the mailbox of a saved code.
LEMMA SecretsKeptStep ==
    ASSUME CoreInv, [Next]_vars
    PROVE  SecretsKept
<1>0. TypeOK
  BY DEF CoreInv, TypeInv
<1>1. CASE UNCHANGED <<tickets, codes>>
  BY <1>1 DEF SecretsKept
<1>2. ASSUME NEW w \in Workers, SaveEmailCode(w) PROVE SecretsKept
  BY <1>0, <1>2 DEF SecretsKept, SaveEmailCode, TypeOK
<1>3. ASSUME NEW w \in Workers, ConsumeEmailCode(w) PROVE SecretsKept
  BY <1>0, <1>3 DEF SecretsKept, ConsumeEmailCode, NewestOpenCode, TypeOK, CodeRow
<1>4. ASSUME NEW w \in Workers, SaveDesktopSsoTicket(w) PROVE SecretsKept
  BY <1>0, <1>4 DEF SecretsKept, SaveDesktopSsoTicket, TypeOK
<1>5. ASSUME NEW w \in Workers, ConsumeDesktopSsoTicket(w) PROVE SecretsKept
  BY <1>0, <1>5 DEF SecretsKept, ConsumeDesktopSsoTicket, TypeOK, TicketRow
<1>6. ASSUME NEW w \in Workers, Step(w) PROVE SecretsKept
  <2>1. CASE \/ SaveEmailCode(w) \/ ConsumeEmailCode(w) \/ SaveDesktopSsoTicket(w)
             \/ ConsumeDesktopSsoTicket(w)
    BY <2>1, <1>2, <1>3, <1>4, <1>5
  <2>2. CASE ~(\/ SaveEmailCode(w) \/ ConsumeEmailCode(w) \/ SaveDesktopSsoTicket(w)
               \/ ConsumeDesktopSsoTicket(w))
    <3>1. UNCHANGED <<tickets, codes>>
      BY <1>6, <2>2
         DEF Step, Begin, Refuse, FindLocalUser, SaveOAuthRequest,
             ConsumeOAuthRequest, GoogleIdentity, UpsertUser, UpsertAuthentik,
             ReadAuthentik, CreateSession, RequireCSRF, CurrentUser, SessionStartedAt, Issue,
             RevokeSession, tables
    <3> QED
      BY <3>1, <1>1
  <2> QED
    BY <2>1, <2>2
<1> QED
  BY <1>1, <1>6 DEF Next, vars, Tick, Restart, SwitchAccount, tables

\* The user admitted owns the identity that was verified.
LEMMA OwnershipAdmit ==
    ASSUME CoreInv, NEW w \in Workers, OwnershipAt(w), NEW u, NEW b, Admit(w, u, b),
           pc[w] \in {"upsert", "readAuthentik"}, Owner(key[w], u)', UNCHANGED codes
    PROVE  OwnershipAt(w)'
<1>1. CASE Answer(w)
  BY <1>1, OwnershipAnswer
<1>2. CASE ~Answer(w)
  <2>1. /\ who' = [who EXCEPT ![w] = u] /\ Call(w, EntryCall(w))
        /\ UNCHANGED <<key, mail, origin>>
    BY <1>2 DEF Admit, history
  <2>2. pc'[w] \in {"session", "ticket"} /\ who'[w] = u
    BY <2>1 DEF CoreInv, TypeInv, TypeOK, Call, EntryCall
  <2>3. Owner(key[w], who[w])'
    BY <2>1, <2>2 DEF Owner
  <2> QED
    BY <2>1, <2>2, <2>3 DEF OwnershipAt
<1> QED
  BY <1>1, <1>2

\* A worker's own step keeps what it has proved, and what it proves is right.
LEMMA OwnershipSelf ==
    ASSUME CoreInv, CoreInv', Spending, Ownership, NEW w \in Workers, Step(w),
           Stable, SecretsKept
    PROVE  OwnershipAt(w)'
<1>0. TypeOK /\ ControlAt(w) /\ OwnershipAt(w) /\ AccountsInv
  BY DEF CoreInv, TypeInv, Control, Ownership
<1>1. CASE Answer(w)
  BY <1>1, OwnershipAnswer
<1>2. ASSUME UNCHANGED <<key, origin>>,
             pc[w] \notin {"upsert", "readAuthentik", "session", "ticket"},
             pc'[w] \notin {"upsert", "readAuthentik"}
      PROVE  OwnershipAt(w)'
  BY <1>0, <1>2 DEF OwnershipAt
<1>3. CASE \E r \in Requests : Begin(w, r)
  <2>1. PICK r \in Requests : Begin(w, r)
    BY <1>3
  <2>2. pc[w] = "idle" /\ pc'[w] = FirstCall[r.kind] /\ UNCHANGED <<key, origin>>
    BY <1>0, <2>1 DEF TypeOK, Begin, Call, found
  <2> QED
    BY <1>2, <2>2, RequestsTyped
<1>4. CASE FindLocalUser(w) \/ RequireCSRF(w) \/ CurrentUser(w) \/ SessionStartedAt(w)
  <2>1. /\ UNCHANGED <<key, origin>> /\ pc[w] \in {"findLocal", "csrf", "user", "started"}
        /\ pc'[w] \notin {"upsert", "readAuthentik"}
    BY <1>0, <1>4, NextCalls
       DEF TypeOK, ControlAt, FindLocalUser, RequireCSRF, CurrentUser, SessionStartedAt, Call,
           found, history
  <2> QED
    BY <1>2, <2>1
<1>5. CASE ConsumeEmailCode(w)
  <2>1. PICK c \in CodeIds : codes[c].status = "open" /\ codes[c].email = req[w].email
                             /\ origin' = [origin EXCEPT ![w] = c]
    BY <1>5 DEF ConsumeEmailCode, NewestOpenCode
  <2>2. /\ pc'[w] = "upsert" /\ origin'[w] = c /\ mail'[w] = req[w].email
        /\ key'[w] = <<"email_code", req[w].email>>
    BY <1>0, <1>5, <2>1 DEF TypeOK, ConsumeEmailCode, Call
  <2>3. codes'[c].email = req[w].email
    BY <2>1 DEF SecretsKept
  <2> QED
    BY <2>2, <2>3, AuthServerAssumption DEF OwnershipAt
<1>6. CASE ConsumeOAuthRequest(w)
  <2>1. /\ pc[w] = "consumeState" /\ pc'[w] = "exchange" /\ UNCHANGED key
        /\ origin'[w] \in StateIds
    BY <1>0, <1>6 DEF TypeOK, ControlAt, ConsumeOAuthRequest, Call, found
  <2> QED
    BY <1>0, <2>1, AuthServerAssumption DEF OwnershipAt
<1>7. CASE GoogleIdentity(w)
  <2>1. /\ pc[w] = "exchange" /\ pc'[w] = "upsert" /\ UNCHANGED origin
        /\ key'[w][1] = "google"
    BY <1>0, <1>7 DEF TypeOK, GoogleIdentity, Call, history
  <2> QED
    BY <1>0, <2>1 DEF OwnershipAt
<1>8. CASE UpsertUser(w)
  <2>1. PICK u \in 1 .. MaxUsers : /\ UpsertIdentityUser(key[w], mail[w], u)
                                   /\ Admit(w, u, users'[u].enabled)
    BY <1>8 DEF UpsertUser
  <2>2. key[w] \in IdentityKeys /\ mail[w] \in Emails /\ pc[w] = "upsert" /\ UNCHANGED codes
    BY <1>0, <1>8 DEF ControlAt, UpsertUser, tables
  <2>3. identity'[key[w]] = u
    BY <1>0, <2>1, <2>2, UpsertIdentityUserStep
  <2>4. CASE ~Answer(w)
    <3>1. UNCHANGED key
      BY <2>1, <2>4 DEF Admit
    <3>2. Owner(key[w], u)'
      BY <2>2, <2>3, <3>1 DEF Owner
    <3> QED
      BY <1>0, <2>1, <2>2, <3>2, OwnershipAdmit
  <2> QED
    BY <1>1, <2>4
<1>9. CASE UpsertAuthentik(w)
  <2>1. /\ pc[w] = "upsertAuthentik" /\ pc'[w] = "readAuthentik" /\ UNCHANGED origin
    BY <1>0, <1>9 DEF TypeOK, UpsertAuthentik, Call, history
  <2> QED
    BY <1>0, <2>1 DEF OwnershipAt
<1>10. CASE ReadAuthentik(w)
  <2>1. PICK u \in UserIds : /\ <<users[u].provider, users[u].sub>> = key[w]
                             /\ Admit(w, u, users[u].enabled)
    BY <1>10 DEF ReadAuthentik
  <2>2. /\ key[w] \in {"authentik"} \X Subjects /\ pc[w] = "readAuthentik"
        /\ UNCHANGED <<users, codes>>
    BY <1>0, <1>10 DEF ControlAt, ReadAuthentik, tables, accountVars
  <2>3. users[u].provider = "authentik" /\ users[u].sub = key[w][2]
    BY <2>1, <2>2
  <2>4. CASE ~Answer(w)
    <3>1. UNCHANGED key
      BY <2>1, <2>4 DEF Admit
    <3>2. Owner(key[w], u)'
      BY <2>2, <2>3, <3>1 DEF Owner, BySubject, UserIds
    <3> QED
      BY <1>0, <2>1, <2>2, <3>2, OwnershipAdmit
  <2> QED
    BY <1>1, <2>4
<1>11. CASE ConsumeDesktopSsoTicket(w) /\ ~Answer(w)
  <2> DEFINE t == req[w].secret
  <2>1. /\ t \in TicketIds /\ tickets[t].status = "open" /\ pc[w] = "consumeTicket"
        /\ who' = [who EXCEPT ![w] = tickets[t].user]
        /\ origin' = [origin EXCEPT ![w] = t] /\ Call(w, "session") /\ UNCHANGED key
    BY <1>0, <1>11 DEF ControlAt, ConsumeDesktopSsoTicket
  <2> HIDE DEF t
  <2>2. pc'[w] = "session" /\ origin'[w] = t /\ who'[w] = tickets[t].user
    BY <1>0, <2>1 DEF TypeOK, Call
  <2>3. tickets'[t].user = tickets[t].user
    BY <2>1 DEF SecretsKept
  <2> QED
    BY <1>0, <2>1, <2>2, <2>3, AuthServerAssumption DEF OwnershipAt
<1> QED
  BY <1>1, <1>3, <1>4, <1>5, <1>6, <1>7, <1>8, <1>9, <1>10, <1>11
     DEF Step, Refuse, SaveEmailCode, SaveOAuthRequest, CreateSession, SaveDesktopSsoTicket,
         Issue, RevokeSession

\* A session is written for the worker's user, identity and secret.
LEMMA SessionOwnedCreated ==
    ASSUME CoreInv, Spending, Ownership, NEW w \in Workers, CreateSession(w),
           NEW s \in SessionIds, Stable, SecretsKept
    PROVE  SessionOwned(s)'
<1>0. TypeOK /\ OwnershipAt(w) /\ SessionOwned(s)
  BY DEF CoreInv, TypeInv, Ownership
<1>1. PICK q \in SessionIds, t \in now[w] .. clock :
         sessions' = [sessions EXCEPT
            ![q] = [status |-> "live", user |-> who[w], created |-> t,
                    expires |-> now[w] + SessionTTL,
                    origin |-> origin[w], via |-> key[w]]]
  BY DEF CreateSession
<1>2. /\ s # q => sessions'[s] = sessions[s]
      /\ s = q => /\ sessions'[s].status = "live" /\ sessions'[s].user = who[w]
                  /\ sessions'[s].origin = origin[w] /\ sessions'[s].via = key[w]
  BY <1>0, <1>1 DEF TypeOK
<1>3. pc[w] = "session" /\ UNCHANGED <<users, identity, tickets, codes>>
  BY DEF CreateSession, accountVars
<1>4. CASE s # q
  BY <1>0, <1>2, <1>4, SessionOwnedKept
<1>5. CASE s = q
  BY <1>0, <1>2, <1>3, <1>5 DEF SessionOwned, OwnershipAt, Owner, BySubject, UserIds
<1> QED
  BY <1>4, <1>5

\* So is a ticket.
LEMMA TicketOwnedSaved ==
    ASSUME CoreInv, Ownership, NEW w \in Workers, SaveDesktopSsoTicket(w),
           NEW t \in TicketIds, Stable
    PROVE  TicketOwned(t)'
<1>0. TypeOK /\ OwnershipAt(w) /\ TicketOwned(t)
  BY DEF CoreInv, TypeInv, Ownership
<1>1. PICK q \in TicketIds :
         tickets' = [tickets EXCEPT
            ![q] = [status |-> "open", user |-> who[w], expires |-> now[w] + TicketTTL,
                    origin |-> origin[w], via |-> key[w]]]
  BY DEF SaveDesktopSsoTicket
<1>2. /\ t # q => tickets'[t] = tickets[t]
      /\ t = q => /\ tickets'[t].status = "open" /\ tickets'[t].user = who[w]
                  /\ tickets'[t].via = key[w]
  BY <1>0, <1>1 DEF TypeOK
<1>3. pc[w] = "ticket" /\ UNCHANGED <<users, identity>>
  BY DEF SaveDesktopSsoTicket, accountVars
<1>4. CASE t # q
  BY <1>0, <1>2, <1>4, TicketOwnedKept
<1>5. CASE t = q
  BY <1>0, <1>2, <1>3, <1>5 DEF TicketOwned, OwnershipAt, Owner, BySubject, UserIds
<1> QED
  BY <1>4, <1>5

\* The rows, under a step of a worker.
LEMMA RowsOwnedStep ==
    ASSUME CoreInv, Spending, Ownership, NEW w \in Workers, Step(w), Stable, SecretsKept
    PROVE  /\ \A s \in SessionIds : SessionOwned(s)'
           /\ \A t \in TicketIds : TicketOwned(t)'
<1>0. /\ TypeOK /\ ControlAt(w)
      /\ \A s \in SessionIds : SessionOwned(s)
      /\ \A t \in TicketIds : TicketOwned(t)
  BY DEF CoreInv, TypeInv, Control, Ownership
<1>1. ASSUME NEW s \in SessionIds, UNCHANGED sessions PROVE SessionOwned(s)'
  BY <1>0, <1>1, SessionOwnedKept
<1>2. ASSUME NEW t \in TicketIds, UNCHANGED tickets PROVE TicketOwned(t)'
  BY <1>0, <1>2, TicketOwnedKept
<1>3. CASE CreateSession(w)
  BY <1>2, <1>3, SessionOwnedCreated DEF CreateSession
<1>4. CASE SaveDesktopSsoTicket(w)
  BY <1>1, <1>4, TicketOwnedSaved DEF SaveDesktopSsoTicket
<1>5. CASE RevokeSession(w)
  <2>1. req[w].cookie \in SessionIds /\ UNCHANGED tickets
    BY <1>0, <1>5 DEF RevokeSession, ControlAt
  <2>2. ASSUME NEW s \in SessionIds
        PROVE  /\ sessions'[s].user = sessions[s].user /\ sessions'[s].via = sessions[s].via
               /\ sessions'[s].origin = sessions[s].origin
               /\ sessions[s].status # "absent" => sessions'[s].status # "absent"
    BY <1>0, <1>5, <2>1 DEF TypeOK, RevokeSession, SessionRow
  <2> QED
    BY <1>0, <1>2, <2>1, <2>2, SessionOwnedKept
<1>6. CASE ConsumeDesktopSsoTicket(w)
  <2> DEFINE q == req[w].secret
  <2>1. q \in TicketIds /\ UNCHANGED sessions
        /\ tickets' = [tickets EXCEPT ![q].status = "consumed"]
    BY <1>0, <1>6 DEF ConsumeDesktopSsoTicket, ControlAt
  <2> HIDE DEF q
  <2>2. ASSUME NEW t \in TicketIds
        PROVE  /\ tickets'[t].user = tickets[t].user /\ tickets'[t].via = tickets[t].via
               /\ tickets[t].status # "absent" => tickets'[t].status # "absent"
    BY <1>0, <2>1 DEF TypeOK, TicketRow
  <2> QED
    BY <1>0, <1>1, <2>1, <2>2, TicketOwnedKept
<1>7. CASE ~(CreateSession(w) \/ SaveDesktopSsoTicket(w) \/ RevokeSession(w)
             \/ ConsumeDesktopSsoTicket(w))
  <2>1. UNCHANGED <<sessions, tickets>>
    BY <1>7 DEF Step, Begin, Refuse, FindLocalUser, SaveEmailCode, ConsumeEmailCode,
         SaveOAuthRequest, ConsumeOAuthRequest, GoogleIdentity, UpsertUser, UpsertAuthentik,
         ReadAuthentik, RequireCSRF, CurrentUser, SessionStartedAt, Issue, tables
  <2> QED
    BY <1>1, <1>2, <2>1
<1> QED
  BY <1>3, <1>4, <1>5, <1>6, <1>7

\* No step of the environment moves a worker or writes a row.
LEMMA EnvironmentStill ==
    ASSUME \/ Tick
           \/ \E e \in AdminEmails : Restart(e)
           \/ \E u \in UserIds, b \in BOOLEAN : SwitchAccount(u, b)
           \/ UNCHANGED vars
    PROVE  UNCHANGED <<sessions, tickets, oauth, codes, grants, pc, req, key, mail, who, origin>>
BY DEF Tick, Restart, SwitchAccount, vars, tables, workerVars, found, history

\* Every step preserves ownership.
LEMMA OwnershipStep ==
    CoreInv /\ CoreInv' /\ Spending /\ Ownership /\ [Next]_vars => Ownership'
<1> SUFFICES ASSUME CoreInv, CoreInv', Spending, Ownership, [Next]_vars PROVE Ownership'
  OBVIOUS
<1>0. SecretsKept /\ AccountsInv
  BY SecretsKeptStep DEF CoreInv, TypeInv
<1>1. ASSUME NEW w \in Workers, Step(w) PROVE Ownership'
  <2>1. Stable
    BY <1>1, WorkerAccounts
  <2>2. OwnershipAt(w)'
    BY <1>0, <1>1, <2>1, OwnershipSelf
  <2>3. ASSUME NEW v \in Workers, v # w PROVE OwnershipAt(v)'
    <3>1. /\ pc'[v] = pc[v] /\ key'[v] = key[v] /\ mail'[v] = mail[v] /\ who'[v] = who[v]
          /\ origin'[v] = origin[v] /\ OwnershipAt(v)
      BY <1>1, <2>3, OthersStill DEF Ownership
    <3> QED
      BY <1>0, <2>1, <3>1, OwnershipFrame
  <2> QED
    BY <1>0, <1>1, <2>1, <2>2, <2>3, RowsOwnedStep DEF Ownership
<1>2. CASE \/ Tick
           \/ \E e \in AdminEmails : Restart(e)
           \/ \E u \in UserIds, b \in BOOLEAN : SwitchAccount(u, b)
           \/ UNCHANGED vars
  <2>1. Stable
    BY <1>0, <1>2, EnvironmentCore, AccountsFrame DEF vars, accountVars
  <2>2. UNCHANGED <<sessions, tickets, codes, pc, key, mail, who, origin>>
    BY <1>2, EnvironmentStill
  <2> QED
    BY <1>0, <2>1, <2>2, OwnershipFrame, SessionOwnedKept, TicketOwnedKept DEF Ownership
<1> QED
  BY <1>1, <1>2 DEF Next

\* What workers have proved and rows record is right throughout.
THEOREM OwnershipInvariant == Spec => []Ownership
<1>1. Init => Spending
  BY DEF Init, Spending, SingleUse, Spent
<1>2. Init => Ownership
  BY AuthServerAssumption DEF Init, Ownership, OwnershipAt, SessionOwned, TicketOwned
<1> QED
  BY <1>1, <1>2, CoreInvariant, SpendingStep, OwnershipStep, PTL DEF Spec

\* Every session and ticket belongs to the account of whoever proved their
\* identity for it: of the verified identity, of the mailbox of the code, of
\* the ticket that was exchanged (createSession, createDesktopSsoTicket).
THEOREM AlwaysRightOwner == Spec => []RightOwner
<1>1. Ownership => RightOwner
  BY DEF Ownership, SessionOwned, TicketOwned, RightOwner
<1> QED
  BY <1>1, OwnershipInvariant, PTL

-----------------------------------------------------------------------------
(* The login server implements Accounts: whatever requests interleave, the  *)
(* accounts change only by the operations of that specification.            *)

\* A call of a worker is an operation on the accounts or leaves them alone.
LEMMA WorkerRefines ==
    ASSUME CoreInv, Ownership, NEW w \in Workers, Step(w)
    PROVE  [AccountsNext]_accountVars
<1>0. ControlAt(w) /\ OwnershipAt(w)
  BY DEF CoreInv, TypeInv, Control, Ownership
<1>1. CASE UpsertUser(w)
  <2>1. PICK u \in 1 .. MaxUsers : UpsertIdentityUser(key[w], mail[w], u)
    BY <1>1 DEF UpsertUser
  <2>2. /\ key[w] \in IdentityKeys /\ mail[w] \in Emails
        /\ key[w][1] = "email_code" => key[w][2] = mail[w]
    BY <1>0, <1>1 DEF UpsertUser, ControlAt, OwnershipAt
  <2> QED
    BY <2>1, <2>2 DEF AccountsNext
<1>2. CASE UpsertAuthentik(w)
  BY <1>2 DEF UpsertAuthentik, AccountsNext
<1>3. CASE ~UpsertUser(w) /\ ~UpsertAuthentik(w)
  BY <1>3
     DEF Step, Begin, Refuse, FindLocalUser, SaveEmailCode, ConsumeEmailCode,
         SaveOAuthRequest, ConsumeOAuthRequest, GoogleIdentity, ReadAuthentik,
         ConsumeDesktopSsoTicket, CreateSession, SaveDesktopSsoTicket, RequireCSRF,
         CurrentUser, SessionStartedAt, Issue, RevokeSession
<1> QED
  BY <1>1, <1>2, <1>3

\* Every behaviour of the login server is one of the account operations, with
\* an e-mail login always under the address of its own subject.
LEMMA ImplementsAccounts == Spec => AccountsSpec
<1>1. Init => AccountsInit
  BY DEF Init
<1>2. CoreInv /\ Ownership /\ [Next]_vars => [AccountsNext]_accountVars
  <2> SUFFICES ASSUME CoreInv, Ownership, [Next]_vars PROVE [AccountsNext]_accountVars
    OBVIOUS
  <2>1. CASE Tick \/ UNCHANGED vars
    BY <2>1 DEF Tick, vars, accountVars
  <2>2. CASE \E e \in AdminEmails : Restart(e)
    BY <2>2 DEF Restart, AccountsNext
  <2>3. CASE \E u \in UserIds, b \in BOOLEAN : SwitchAccount(u, b)
    BY <2>3 DEF SwitchAccount, AccountsNext
  <2> QED
    BY <2>1, <2>2, <2>3, WorkerRefines DEF Next
<1> QED
  BY <1>1, <1>2, CoreInvariant, OwnershipInvariant, PTL DEF Spec, AccountsSpec

\* So what holds of the account operations holds under concurrent logins:
\* created accounts stay reachable, administrators are the configured ones and
\* no identity moves.
COROLLARY LoginsKeepAccounts ==
    Spec => []OriginLinked /\ []AdminsAreConfigured /\ IdentityNeverMoves
BY ImplementsAccounts, OriginLinkedAlways, AdminsAlwaysConfigured, IdentitiesNeverMove, PTL

-----------------------------------------------------------------------------
(* Administrator writes.  The role is read before the CSRF token and used   *)
(* after it; what makes an administrator of the account does not change in  *)
(* between or afterwards.                                                   *)

ConfiguredAdmin(u) ==
    u \in UserIds /\ users[u].provider = "local" /\ users[u].sub \in AdminEmails

\* updateAdmin has let worker w pass.
AdminPassed(w) == pc[w] \in {"csrf", "issue"} /\ req[w].kind = "adminSave"

AdminInv ==
    /\ \A w \in Workers : AdminPassed(w) => ConfiguredAdmin(who[w])
    /\ \A g \in grants : g.kind = "adminSave" => ConfiguredAdmin(g.user)

\* A configured administrator stays one.
LEMMA ConfiguredKept ==
    ASSUME Stable, NEW u, ConfiguredAdmin(u)
    PROVE  ConfiguredAdmin(u)'
BY DEF Stable, SameSubject, ConfiguredAdmin, UserIds

\* A worker passes by the role of its session's user, read in currentUser.
LEMMA AdminSelf ==
    ASSUME CoreInv, AdminInv, NEW w \in Workers, Step(w), Stable, AdminPassed(w)'
    PROVE  ConfiguredAdmin(who[w])'
<1>0. TypeOK /\ ControlAt(w) /\ AccountsInv
  BY DEF CoreInv, TypeInv, Control
<1>1. ASSUME NEW r \in Requests, Begin(w, r) PROVE FALSE
  <2>1. pc'[w] = FirstCall[r.kind] /\ req'[w] = r
    BY <1>0, <1>1 DEF TypeOK, Begin, Call
  <2> QED
    BY <2>1, RequestsTyped DEF AdminPassed
<1>2. CASE CurrentUser(w)
  <2> DEFINE u == sessions[req[w].cookie].user
  <2>1. /\ SessionValid(req[w].cookie, now[w]) /\ pc[w] = "user"
        /\ req[w].kind = "adminSave" => users[u].role \in AdminRoles
        /\ who' = [who EXCEPT ![w] = u] /\ UNCHANGED req
    BY <1>2 DEF CurrentUser
  <2>a. u \in UserIds /\ users[u].role \in AdminRoles
    BY <1>0, <2>1 DEF CoreInv, RowsNameUsers, SessionValid, ControlAt, AdminPassed
  <2>b. users[u].role \in {"user", "admin"}
    <3>1. users \in Seq(UserRow) /\ u \in DOMAIN users
      BY <1>0, <2>a DEF TypeOK, AccountsTypeOK, UserIds
    <3> HIDE DEF u
    <3>2. users[u] \in UserRow
      BY <3>1, ElementOfSeq, LenProperties
    <3> QED
      BY <3>2 DEF UserRow
  <2>2. u \in UserIds /\ users[u].role = "admin"
    BY <2>a, <2>b DEF AdminRoles
  <2>3. ConfiguredAdmin(u)
    BY <1>0, <2>2 DEF AccountsInv, AdminsAreConfigured, ConfiguredAdmin
  <2>4. who'[w] = u /\ UNCHANGED users
    BY <1>0, <1>2, <2>1 DEF TypeOK, CurrentUser, accountVars
  <2> QED
    BY <2>3, <2>4 DEF ConfiguredAdmin, UserIds
<1>3. CASE RequireCSRF(w)
  <2>1. pc[w] = "csrf" /\ UNCHANGED <<req, who>>
    BY <1>3 DEF RequireCSRF, found
  <2>2. AdminPassed(w)
    BY <2>1 DEF AdminPassed
  <2>3. ConfiguredAdmin(who[w])
    BY <2>2 DEF AdminInv
  <2> QED
    BY <2>1, <2>3, ConfiguredKept DEF ConfiguredAdmin
<1>4. CASE Answer(w)
  BY <1>0, <1>4 DEF TypeOK, Answer, AdminPassed
<1>5. CASE SessionStartedAt(w)
  BY <1>0, <1>5 DEF SessionStartedAt, ControlAt, AdminPassed
<1>6. CASE \/ FindLocalUser(w) \/ ConsumeEmailCode(w) \/ ConsumeOAuthRequest(w)
           \/ GoogleIdentity(w) \/ UpsertAuthentik(w)
  BY <1>0, <1>6 DEF TypeOK, FindLocalUser, ConsumeEmailCode, ConsumeOAuthRequest,
                    GoogleIdentity, UpsertAuthentik, Call, AdminPassed
<1>7. CASE UpsertUser(w) \/ ReadAuthentik(w)
  BY <1>0, <1>4, <1>7 DEF TypeOK, UpsertUser, ReadAuthentik, Admit, EntryCall, Call, AdminPassed
<1>8. CASE ConsumeDesktopSsoTicket(w)
  BY <1>0, <1>4, <1>8 DEF TypeOK, ConsumeDesktopSsoTicket, Call, AdminPassed
<1> QED
  BY <1>1, <1>2, <1>3, <1>4, <1>5, <1>6, <1>7, <1>8
     DEF Step, Refuse, SaveEmailCode, SaveOAuthRequest, CreateSession, SaveDesktopSsoTicket,
         Issue, RevokeSession

\* Every step preserves it.
LEMMA AdminStep == CoreInv /\ AdminInv /\ [Next]_vars => AdminInv'
<1> SUFFICES ASSUME CoreInv, AdminInv, [Next]_vars PROVE AdminInv'
  OBVIOUS
<1>0. AccountsInv
  BY DEF CoreInv, TypeInv
<1>1. ASSUME NEW w \in Workers, Step(w) PROVE AdminInv'
  <2>1. Stable
    BY <1>1, WorkerAccounts
  <2>2. ASSUME NEW v \in Workers, AdminPassed(v)' PROVE ConfiguredAdmin(who[v])'
    <3>1. CASE v = w
      BY <1>1, <2>1, <2>2, <3>1, AdminSelf
    <3>2. CASE v # w
      <4>1. pc'[v] = pc[v] /\ req'[v] = req[v] /\ who'[v] = who[v]
        BY <1>1, <3>2, OthersStill
      <4>2. ConfiguredAdmin(who[v])
        BY <2>2, <4>1 DEF AdminPassed, AdminInv
      <4> QED
        BY <2>1, <4>1, <4>2, ConfiguredKept DEF ConfiguredAdmin
    <3> QED
      BY <3>1, <3>2
  <2>3. ASSUME NEW g \in grants', g.kind = "adminSave" PROVE ConfiguredAdmin(g.user)'
    <3>1. CASE g \in grants
      BY <2>1, <2>3, <3>1, ConfiguredKept DEF AdminInv
    <3>2. CASE g \notin grants
      <4>1. Issue(w)
        BY <1>1, <2>3, <3>2, WorkerWrites
      <4>2. g.user = who[w] /\ AdminPassed(w)
        BY <2>3, <3>2, <4>1 DEF Issue, AdminPassed
      <4>3. ConfiguredAdmin(g.user)
        BY <4>2 DEF AdminInv
      <4> QED
        BY <2>1, <4>3, ConfiguredKept
    <3> QED
      BY <3>1, <3>2
  <2> QED
    BY <2>2, <2>3 DEF AdminInv
<1>2. CASE \/ Tick
           \/ \E e \in AdminEmails : Restart(e)
           \/ \E u \in UserIds, b \in BOOLEAN : SwitchAccount(u, b)
           \/ UNCHANGED vars
  <2>1. Stable
    BY <1>0, <1>2, EnvironmentCore, AccountsFrame DEF vars, accountVars
  <2>2. UNCHANGED <<pc, req, who, grants>>
    BY <1>2, EnvironmentStill
  <2>3. \A u : ConfiguredAdmin(u) => ConfiguredAdmin(u)'
    BY <2>1, ConfiguredKept
  <2> QED
    BY <2>2, <2>3 DEF AdminInv, AdminPassed, ConfiguredAdmin
<1> QED
  BY <1>1, <1>2 DEF Next

\* Administrator writes are let through for accounts EnsureAdmin made only,
\* and those accounts still are what EnsureAdmin made (updateAdmin).
THEOREM AdminSavesByAdmins == Spec => []AdminSaveByAdmin
<1>1. Init => AdminInv
  BY DEF Init, AdminInv, AdminPassed
<1>2. AdminInv => AdminSaveByAdmin
  BY DEF AdminInv, AdminSaveByAdmin, ConfiguredAdmin
<1> QED
  BY <1>1, <1>2, CoreInvariant, AdminStep, PTL DEF Spec
=============================================================================
