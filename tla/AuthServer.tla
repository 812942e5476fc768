----------------------------- MODULE AuthServer -----------------------------
(***************************************************************************)
(* The login server of internal/auth/server.go over the tables of          *)
(* internal/auth/store.go: concurrent HTTP requests that turn one-time     *)
(* secrets (e-mail codes, OAuth states, desktop tickets) into sessions,    *)
(* and sessions into JWTs and administrator writes.                        *)
(*                                                                         *)
(* Every handler runs in a goroutine of its own (a worker).  One step is   *)
(* one call of the store: a statement or a transaction of MySQL, atomic.   *)
(* Between two calls of one request any other request may run.  The        *)
(* argument s.now() of a call is evaluated when the previous call has      *)
(* returned, so the instant a call compares with (now[w]) may be older     *)
(* than the clock when the call takes effect.                              *)
(*                                                                         *)
(* Every error answer (a refused check, a failed statement, a cancelled    *)
(* context, a rate limit, a crash of the process) leaves the tables as the *)
(* request's earlier calls left them: that is the action Refuse.  The      *)
(* login log, LAST_LOGIN_AT_ and LAST_SEEN_AT_ are written and never read  *)
(* by the server, and are left out.                                        *)
(***************************************************************************)
EXTENDS Accounts

CONSTANTS
    Workers,      \* concurrent requests
    SessionIds,   \* session tokens (32 random bytes, never drawn twice)
    TicketIds,    \* desktop ticket tokens (likewise)
    StateIds,     \* OAuth state tokens (likewise)
    CodeIds,      \* rows of auth_email_code
    Digits,       \* values of the six-digit code: rows may share one
    Kinds,        \* the endpoints that requests are made to
    SessionTTL, TicketTTL, StateTTL, CodeTTL,
    MaxTime,      \* bound on the clock
    None          \* no value

\* Endpoints whose handlers change state or hand out rights.
AllKinds == {"login", "emailCodeStart", "emailCodeVerify", "googleStart",
             "googleDesktopStart", "googleCallback", "desktopIdToken",
             "authentikSession", "desktopBridge", "desktopContinue",
             "desktopTicket", "desktopToken", "marketRead", "marketWrite",
             "adminSave", "logout"}

ASSUME AuthServerAssumption ==
    /\ Kinds \subseteq AllKinds
    /\ SessionTTL \in Nat /\ TicketTTL \in Nat /\ StateTTL \in Nat /\ CodeTTL \in Nat
    /\ MaxTime \in Nat
    /\ StateIds \cap CodeIds = {} /\ TicketIds \cap CodeIds = {}
    /\ StateIds \cap TicketIds = {}
    /\ None \notin TicketIds \cup StateIds \cup CodeIds

VARIABLES
    clock,
    sessions,  \* auth_session; a deleted row keeps its token as "revoked"
    tickets,   \* auth_desktop_sso_ticket
    oauth,     \* auth_oauth_request
    codes,     \* auth_email_code
    grants,    \* JWTs signed and administrator writes let through
    pc,        \* worker: the store call it makes next
    req,       \* worker: the request it serves
    now,       \* worker: s.now() of its next call
    key,       \* worker: the (provider, subject) it has verified
    mail,      \* worker: the e-mail address verified with it
    who,       \* worker: the user id, 0 before it is known
    started,   \* worker: CREATED_AT_ of the session (desktopSsoToken)
    origin,    \* history: the one-time secret this request has consumed
    dead,      \* history: sessions over when the request's last read of one began
    off        \* history: users disabled ever since its last check of ENABLED_ began

tables == <<sessions, tickets, oauth, codes>>
found == <<key, mail, who, started>>
history == <<origin, dead, off>>
workerVars == <<pc, req, now, found, history>>
vars == <<users, identity, clock, sessions, tickets, oauth, codes, grants, pc, req, now,
          key, mail, who, started, origin, dead, off>>

Times == 0 .. MaxTime
Secrets == TicketIds \cup StateIds \cup CodeIds
VerifiedKeys == IdentityKeys \cup ({"authentik"} \X Subjects)

\* Rows.  origin and via are history: the secret and the identity behind them.
SessionRow == [status: {"absent", "live", "revoked"}, user: Nat, created: Nat,
               expires: Nat, origin: Secrets \cup {None}, via: VerifiedKeys \cup {None}]
TicketRow == [status: {"absent", "open", "consumed"}, user: Nat, expires: Nat,
              origin: Secrets \cup {None}, via: VerifiedKeys \cup {None}]
OAuthRow == [status: {"absent", "open", "consumed"}, kind: {"web", "desktop"}, expires: Nat]
CodeRow == [status: {"absent", "open", "consumed"}, email: Emails \cup {None},
            hash: (Emails \X Digits) \cup {None}, created: Nat, expires: Nat]

GrantKinds == {"desktopToken", "marketRead", "marketWrite", "adminSave"}
Grant == [kind: GrantKinds, session: SessionIds, user: Nat, started: Nat \cup {None}]

Labels == {"idle", "findLocal", "saveCode", "consumeCode", "saveState", "consumeState",
           "exchange", "upsert", "upsertAuthentik", "readAuthentik", "consumeTicket",
           "session", "ticket", "csrf", "user", "started", "issue", "revoke"}

\* A request: the cookie of the session endpoints, the ticket, state or code
\* it submits, the address it is about.
Request == [kind: AllKinds, cookie: SessionIds \cup {None},
            secret: TicketIds \cup StateIds \cup Digits \cup {None},
            email: Emails \cup {None}]

Req(kind, cookie, secret, email) ==
    [kind |-> kind, cookie |-> cookie, secret |-> secret, email |-> email]

NoRequest == Req("logout", None, None, None)

TypeOK ==
    /\ AccountsTypeOK
    /\ clock \in Times
    /\ sessions \in [SessionIds -> SessionRow]
    /\ tickets \in [TicketIds -> TicketRow]
    /\ oauth \in [StateIds -> OAuthRow]
    /\ codes \in [CodeIds -> CodeRow]
    /\ grants \subseteq Grant
    /\ pc \in [Workers -> Labels]
    /\ req \in [Workers -> Request]
    /\ now \in [Workers -> Times]
    /\ key \in [Workers -> VerifiedKeys \cup {None}]
    /\ mail \in [Workers -> Emails \cup {None}]
    /\ who \in [Workers -> Nat]
    /\ started \in [Workers -> Nat \cup {None}]
    /\ origin \in [Workers -> Secrets \cup {None}]
    /\ dead \in [Workers -> SUBSET SessionIds]
    /\ off \in [Workers -> SUBSET Nat]

Init ==
    /\ AccountsInit
    /\ clock = 0
    /\ sessions = [s \in SessionIds |-> [status |-> "absent", user |-> 0, created |-> 0,
                                         expires |-> 0, origin |-> None, via |-> None]]
    /\ tickets = [t \in TicketIds |-> [status |-> "absent", user |-> 0, expires |-> 0,
                                       origin |-> None, via |-> None]]
    /\ oauth = [s \in StateIds |-> [status |-> "absent", kind |-> "web", expires |-> 0]]
    /\ codes = [c \in CodeIds |-> [status |-> "absent", email |-> None, hash |-> None,
                                   created |-> 0, expires |-> 0]]
    /\ grants = {}
    /\ pc = [w \in Workers |-> "idle"]
    /\ req = [w \in Workers |-> NoRequest]
    /\ now = [w \in Workers |-> 0]
    /\ key = [w \in Workers |-> None]
    /\ mail = [w \in Workers |-> None]
    /\ who = [w \in Workers |-> 0]
    /\ started = [w \in Workers |-> None]
    /\ origin = [w \in Workers |-> None]
    /\ dead = [w \in Workers |-> {}]
    /\ off = [w \in Workers |-> {}]

-----------------------------------------------------------------------------
(* Requests *)

\* The first store call of each handler.
FirstCall ==
    [login |-> "findLocal", emailCodeStart |-> "saveCode", emailCodeVerify |-> "consumeCode",
     googleStart |-> "saveState", googleDesktopStart |-> "saveState",
     googleCallback |-> "consumeState", desktopIdToken |-> "exchange",
     authentikSession |-> "upsertAuthentik", desktopBridge |-> "upsertAuthentik",
     desktopContinue |-> "user", desktopTicket |-> "consumeTicket",
     desktopToken |-> "csrf", marketRead |-> "user", marketWrite |-> "user",
     adminSave |-> "user", logout |-> "csrf"]

CookieKinds == {"desktopContinue", "desktopToken", "marketRead", "marketWrite",
                "adminSave", "logout"}
PlainKinds == {"googleStart", "googleDesktopStart", "desktopIdToken",
               "authentikSession", "desktopBridge"}

\* What clients send: any token or code, issued or not, fresh, used or stale.
Requests ==
    UNION {{Req(k, s, None, None) : k \in CookieKinds, s \in SessionIds},
           {Req(k, None, None, None) : k \in PlainKinds},
           {Req(k, None, None, e) : k \in {"login", "emailCodeStart"}, e \in Emails},
           {Req("emailCodeVerify", None, d, e) : d \in Digits, e \in Emails},
           {Req("googleCallback", None, s, None) : s \in StateIds},
           {Req("desktopTicket", None, t, None) : t \in TicketIds}}

\* Mutant: the WHERE clause lacks EXPIRES_AT_ > ?.
SessionValidForever(s, t) == sessions[s].status = "live"

\* FindSessionCSRF, FindUserBySession, FindSessionStartedAt: the WHERE clause.
SessionValid(s, t) == sessions[s].status = "live" /\ sessions[s].expires > t

SessionOver(s, t) ==
    sessions[s].status = "revoked" \/ (sessions[s].status = "live" /\ sessions[s].expires <= t)

\* The calls whose WHERE clause looks at a session, and the calls after which
\* ENABLED_ decides.
SessionReads == {"csrf", "user", "started"}
EnabledReads == {"findLocal", "upsert", "readAuthentik", "consumeTicket", "user"}

\* The next call of worker w, with its arguments evaluated now.
Call(w, label) ==
    /\ pc' = [pc EXCEPT ![w] = label]
    /\ now' = [now EXCEPT ![w] = clock]
    /\ dead' = [dead EXCEPT ![w] =
          IF label \in SessionReads THEN {s \in SessionIds : SessionOver(s, clock)} ELSE @]
    /\ off' = [off EXCEPT ![w] =
          IF label \in EnabledReads THEN {u \in UserIds : ~users[u].enabled} ELSE @]

\* The answer is written and the goroutine ends.
Answer(w) ==
    /\ pc' = [pc EXCEPT ![w] = "idle"]
    /\ req' = [req EXCEPT ![w] = NoRequest]
    /\ now' = [now EXCEPT ![w] = 0]
    /\ key' = [key EXCEPT ![w] = None]
    /\ mail' = [mail EXCEPT ![w] = None]
    /\ who' = [who EXCEPT ![w] = 0]
    /\ started' = [started EXCEPT ![w] = None]
    /\ origin' = [origin EXCEPT ![w] = None]
    /\ dead' = [dead EXCEPT ![w] = {}]
    /\ off' = [off EXCEPT ![w] = {}]

\* A request arrives and passes the checks that read no table: method, JSON,
\* Origin, rate limit, callback URL, configuration, bridge token.
Begin(w, r) ==
    /\ pc[w] = "idle"
    /\ r.kind \in Kinds
    /\ Call(w, FirstCall[r.kind])
    /\ req' = [req EXCEPT ![w] = r]
    /\ UNCHANGED <<accountVars, clock, tables, grants, found, origin>>

\* Any early return with an error, and any failure between two calls.
Refuse(w) ==
    /\ pc[w] # "idle"
    /\ Answer(w)
    /\ UNCHANGED <<accountVars, clock, tables, grants>>

-----------------------------------------------------------------------------
(* First half of a login: who is it? *)

\* login: FindLocalUserByEmail, the password, ENABLED_.
FindLocalUser(w) ==
    /\ pc[w] = "findLocal"
    /\ \E u \in LocalUsers(req[w].email) :
          /\ users[u].enabled
          /\ who' = [who EXCEPT ![w] = u]
    /\ Call(w, "session")
    /\ UNCHANGED <<accountVars, clock, tables, grants, req, key, mail, started, origin>>

\* emailCodeHash: SHA-256 of address and code, taken to be injective.
EmailCodeHash(email, code) == <<email, code>>

\* emailCodeStart: SaveEmailCode, which reads the clock again for CREATED_AT_.
\* The mail is sent after it; whether it arrives changes no table.
SaveEmailCode(w) ==
    /\ pc[w] = "saveCode"
    /\ \E c \in CodeIds, d \in Digits, t \in now[w] .. clock :
          /\ codes[c].status = "absent"
          /\ codes' = [codes EXCEPT
                ![c] = [status |-> "open", email |-> req[w].email,
                        hash |-> EmailCodeHash(req[w].email, d),
                        created |-> t, expires |-> now[w] + CodeTTL]]
    /\ Answer(w)
    /\ UNCHANGED <<accountVars, clock, sessions, tickets, oauth, grants>>

\* WHERE EMAIL_ = ? AND CONSUMED_AT_ IS NULL ORDER BY CREATED_AT_ DESC LIMIT 1.
\* Rows created within one tick come in any order.
NewestOpenCode(email) ==
    {c \in CodeIds :
        /\ codes[c].status = "open" /\ codes[c].email = email
        /\ \A d \in CodeIds : codes[d].status = "open" /\ codes[d].email = email
                                 => codes[d].created <= codes[c].created}

\* Mutant: SELECT and UPDATE are not one locked transaction, so a second
\* request may take a row the first one has just consumed.
ConsumeEmailCodeUnlocked(w) ==
    /\ pc[w] = "consumeCode"
    /\ \E c \in CodeIds :
          /\ codes[c].status # "absent" /\ codes[c].email = req[w].email
          /\ codes[c].hash = EmailCodeHash(req[w].email, req[w].secret) /\ codes[c].expires > now[w]
          /\ codes' = [codes EXCEPT ![c].status = "consumed"]
          /\ origin' = [origin EXCEPT ![w] = c]
    /\ key' = [key EXCEPT ![w] = <<"email_code", req[w].email>>]
    /\ mail' = [mail EXCEPT ![w] = req[w].email]
    /\ Call(w, "upsert")
    /\ UNCHANGED <<accountVars, clock, sessions, tickets, oauth, grants, req, who, started>>

\* emailCodeVerify: ConsumeEmailCode.
ConsumeEmailCode(w) ==
    /\ pc[w] = "consumeCode"
    /\ \E c \in NewestOpenCode(req[w].email) :
          /\ codes[c].hash = EmailCodeHash(req[w].email, req[w].secret)
          /\ codes[c].expires > now[w]
          /\ codes' = [codes EXCEPT ![c].status = "consumed"]
          /\ origin' = [origin EXCEPT ![w] = c]
    /\ key' = [key EXCEPT ![w] = <<"email_code", req[w].email>>]
    /\ mail' = [mail EXCEPT ![w] = req[w].email]
    /\ Call(w, "upsert")
    /\ UNCHANGED <<accountVars, clock, sessions, tickets, oauth, grants, req, who, started>>

\* startGoogleOAuth: SaveOAuthRequest.
SaveOAuthRequest(w) ==
    /\ pc[w] = "saveState"
    /\ \E s \in StateIds :
          /\ oauth[s].status = "absent"
          /\ oauth' = [oauth EXCEPT
                ![s] = [status |-> "open", expires |-> now[w] + StateTTL,
                        kind |-> IF req[w].kind = "googleStart" THEN "web" ELSE "desktop"]]
    /\ Answer(w)
    /\ UNCHANGED <<accountVars, clock, sessions, tickets, codes, grants>>

\* googleCallback: ConsumeOAuthRequest.
ConsumeOAuthRequest(w) ==
    /\ pc[w] = "consumeState"
    /\ LET s == req[w].secret IN
          /\ oauth[s].status = "open"
          /\ oauth[s].expires > now[w]
          /\ oauth' = [oauth EXCEPT ![s].status = "consumed"]
          /\ origin' = [origin EXCEPT ![w] = s]
    /\ Call(w, "exchange")
    /\ UNCHANGED <<accountVars, clock, sessions, tickets, codes, grants, req, found>>

\* ExchangeCode and VerifyIDToken answer with some Google account whose
\* e-mail address is verified.
GoogleIdentity(w) ==
    /\ pc[w] = "exchange"
    /\ \E s \in Subjects, e \in Emails :
          /\ key' = [key EXCEPT ![w] = <<"google", s>>]
          /\ mail' = [mail EXCEPT ![w] = e]
    /\ Call(w, "upsert")
    /\ UNCHANGED <<accountVars, clock, tables, grants, req, who, started, origin>>

\* completeDesktopSsoBridge and the desktop half of googleCallback end with a
\* ticket, every other login with a session.
EntryCall(w) ==
    IF \/ req[w].kind = "desktopBridge"
       \/ req[w].kind = "googleCallback" /\ oauth[req[w].secret].kind = "desktop"
    THEN "ticket" ELSE "session"

\* The account is known: go on if it is enabled, else answer account_disabled.
Admit(w, u, enabled) ==
    \/ /\ enabled
       /\ who' = [who EXCEPT ![w] = u]
       /\ Call(w, EntryCall(w))
       /\ UNCHANGED <<req, key, mail, started, origin>>
    \/ /\ ~enabled
       /\ Answer(w)

\* UpsertGoogleUser, UpsertEmailCodeUser.  The write commits even when the
\* account turns out to be disabled.
UpsertUser(w) ==
    /\ pc[w] = "upsert"
    /\ \E u \in 1 .. MaxUsers :
          /\ UpsertIdentityUser(key[w], mail[w], u)
          /\ Admit(w, u, users'[u].enabled)
    /\ UNCHANGED <<clock, tables, grants>>

\* UpsertAuthentikUser, the INSERT ... ON DUPLICATE KEY UPDATE, for the
\* identity in the headers of the trusted bridge.
UpsertAuthentik(w) ==
    /\ pc[w] = "upsertAuthentik"
    /\ \E s \in Subjects, e \in Emails :
          /\ UpsertAuthentikUser(s, e)
          /\ key' = [key EXCEPT ![w] = <<"authentik", s>>]
          /\ mail' = [mail EXCEPT ![w] = e]
    /\ Call(w, "readAuthentik")
    /\ UNCHANGED <<clock, tables, grants, req, who, started, origin>>

\* Mutant: the SELECT goes by EMAIL_.
ReadAuthentikByEmail(w) ==
    /\ pc[w] = "readAuthentik"
    /\ \E u \in ByEmail(mail[w]) : Admit(w, u, users[u].enabled)
    /\ UNCHANGED <<accountVars, clock, tables, grants>>

\* UpsertAuthentikUser, the SELECT: a statement of its own.
ReadAuthentik(w) ==
    /\ pc[w] = "readAuthentik"
    /\ \E u \in UserIds :
          /\ <<users[u].provider, users[u].sub>> = key[w]
          /\ Admit(w, u, users[u].enabled)
    /\ UNCHANGED <<accountVars, clock, tables, grants>>

\* Mutant: the UPDATE lacks CONSUMED_AT_ IS NULL.
ConsumeDesktopSsoTicketAgain(w) ==
    /\ pc[w] = "consumeTicket"
    /\ LET t == req[w].secret IN
          /\ tickets[t].status # "absent"
          /\ tickets[t].expires > now[w]
          /\ tickets' = [tickets EXCEPT ![t].status = "consumed"]
          /\ \/ /\ users[tickets[t].user].enabled
                /\ who' = [who EXCEPT ![w] = tickets[t].user]
                /\ origin' = [origin EXCEPT ![w] = t]
                /\ Call(w, "session")
                /\ UNCHANGED <<req, key, mail, started>>
             \/ /\ ~users[tickets[t].user].enabled
                /\ Answer(w)
    /\ UNCHANGED <<accountVars, clock, sessions, oauth, codes, grants>>

\* Mutant: the SELECT after the UPDATE finds some consumed ticket, not this one.
ConsumeDesktopSsoTicketOther(w) ==
    /\ pc[w] = "consumeTicket"
    /\ LET t == req[w].secret IN
          /\ tickets[t].status = "open"
          /\ tickets[t].expires > now[w]
          /\ tickets' = [tickets EXCEPT ![t].status = "consumed"]
          /\ \E q \in TicketIds :
                /\ tickets'[q].status = "consumed"
                /\ users[tickets[q].user].enabled
                /\ who' = [who EXCEPT ![w] = tickets[q].user]
          /\ origin' = [origin EXCEPT ![w] = t]
          /\ Call(w, "session")
    /\ UNCHANGED <<accountVars, clock, sessions, oauth, codes, grants, req, key, mail,
                   started>>

\* desktopSsoTicketSession: ConsumeDesktopSsoTicket.  A ticket presented for a
\* disabled account is consumed all the same.
ConsumeDesktopSsoTicket(w) ==
    /\ pc[w] = "consumeTicket"
    /\ LET t == req[w].secret IN
          /\ tickets[t].status = "open"
          /\ tickets[t].expires > now[w]
          /\ tickets' = [tickets EXCEPT ![t].status = "consumed"]
          /\ \/ /\ users[tickets[t].user].enabled
                /\ who' = [who EXCEPT ![w] = tickets[t].user]
                /\ origin' = [origin EXCEPT ![w] = t]
                /\ Call(w, "session")
                /\ UNCHANGED <<req, key, mail, started>>
             \/ /\ ~users[tickets[t].user].enabled
                /\ Answer(w)
    /\ UNCHANGED <<accountVars, clock, sessions, oauth, codes, grants>>

-----------------------------------------------------------------------------
(* Second half of a login *)

\* createSession, CreateSession: EXPIRES_AT_ is computed by the caller,
\* CREATED_AT_ by the store when it is called.
CreateSession(w) ==
    /\ pc[w] = "session"
    /\ \E s \in SessionIds, t \in now[w] .. clock :
          /\ sessions[s].status = "absent"
          /\ sessions' = [sessions EXCEPT
                ![s] = [status |-> "live", user |-> who[w], created |-> t,
                        expires |-> now[w] + SessionTTL,
                        origin |-> origin[w], via |-> key[w]]]
    /\ Answer(w)
    /\ UNCHANGED <<accountVars, clock, tickets, oauth, codes, grants>>

\* createDesktopSsoTicket, SaveDesktopSsoTicket
SaveDesktopSsoTicket(w) ==
    /\ pc[w] = "ticket"
    /\ \E t \in TicketIds :
          /\ tickets[t].status = "absent"
          /\ tickets' = [tickets EXCEPT
                ![t] = [status |-> "open", user |-> who[w],
                        expires |-> now[w] + TicketTTL,
                        origin |-> origin[w], via |-> key[w]]]
    /\ Answer(w)
    /\ UNCHANGED <<accountVars, clock, sessions, oauth, codes, grants>>

-----------------------------------------------------------------------------
(* Endpoints behind a session *)

AfterCSRF ==
    [desktopToken |-> "user", marketWrite |-> "issue", adminSave |-> "issue",
     logout |-> "revoke"]

AfterUser ==
    [desktopToken |-> "started", marketRead |-> "issue", marketWrite |-> "csrf",
     adminSave |-> "csrf", desktopContinue |-> "ticket"]

\* requireCSRF with the right token and Origin: FindSessionCSRF.
RequireCSRF(w) ==
    /\ pc[w] = "csrf"
    /\ SessionValid(req[w].cookie, now[w])
    /\ Call(w, AfterCSRF[req[w].kind])
    /\ UNCHANGED <<accountVars, clock, tables, grants, req, found, origin>>

\* The roles updateAdmin lets through; no code writes "administrator".
AdminRoles == {"admin", "administrator"}

\* Mutant: FindUserBySession joins the user and forgets ENABLED_.
CurrentUserDisabled(w) ==
    /\ pc[w] = "user"
    /\ SessionValid(req[w].cookie, now[w])
    /\ LET u == sessions[req[w].cookie].user IN
          /\ req[w].kind = "adminSave" => users[u].role \in AdminRoles
          /\ who' = [who EXCEPT ![w] = u]
    /\ Call(w, AfterUser[req[w].kind])
    /\ UNCHANGED <<accountVars, clock, tables, grants, req, key, mail, started, origin>>

\* Mutant: the administrator check is left out.
CurrentUserAnyRole(w) ==
    /\ pc[w] = "user"
    /\ SessionValid(req[w].cookie, now[w])
    /\ LET u == sessions[req[w].cookie].user IN
          /\ users[u].enabled
          /\ who' = [who EXCEPT ![w] = u]
    /\ Call(w, AfterUser[req[w].kind])
    /\ UNCHANGED <<accountVars, clock, tables, grants, req, key, mail, started, origin>>

\* currentUser: FindUserBySession; updateAdmin also checks the role.
CurrentUser(w) ==
    /\ pc[w] = "user"
    /\ SessionValid(req[w].cookie, now[w])
    /\ LET u == sessions[req[w].cookie].user IN
          /\ users[u].enabled
          /\ req[w].kind = "adminSave" => users[u].role \in AdminRoles
          /\ who' = [who EXCEPT ![w] = u]
    /\ Call(w, AfterUser[req[w].kind])
    /\ UNCHANGED <<accountVars, clock, tables, grants, req, key, mail, started, origin>>

\* Mutant: the renewal restarts the login time.
SessionStartedNow(w) ==
    /\ pc[w] = "started"
    /\ SessionValid(req[w].cookie, now[w])
    /\ started' = [started EXCEPT ![w] = now[w]]
    /\ Call(w, "issue")
    /\ UNCHANGED <<accountVars, clock, tables, grants, req, key, mail, who, origin>>

\* desktopSsoToken: FindSessionStartedAt.
SessionStartedAt(w) ==
    /\ pc[w] = "started"
    /\ SessionValid(req[w].cookie, now[w])
    /\ started' = [started EXCEPT ![w] = sessions[req[w].cookie].created]
    /\ Call(w, "issue")
    /\ UNCHANGED <<accountVars, clock, tables, grants, req, key, mail, who, origin>>

\* issue and issueWithPolicy sign a JWT; adminUpdateSave goes on to the store
\* of update feeds.
Issue(w) ==
    /\ pc[w] = "issue"
    /\ grants' = grants \cup {[kind |-> req[w].kind, session |-> req[w].cookie,
                               user |-> who[w], started |-> started[w]]}
    /\ Answer(w)
    /\ UNCHANGED <<accountVars, clock, tables>>

\* logout: RevokeSession.  Its error is ignored: Refuse covers that answer.
RevokeSession(w) ==
    /\ pc[w] = "revoke"
    /\ sessions' = [sessions EXCEPT
          ![req[w].cookie].status = IF @ = "absent" THEN @ ELSE "revoked"]
    /\ Answer(w)
    /\ UNCHANGED <<accountVars, clock, tickets, oauth, codes, grants>>

-----------------------------------------------------------------------------
(* Environment *)

Tick ==
    /\ clock < MaxTime
    /\ clock' = clock + 1
    /\ UNCHANGED <<accountVars, tables, grants, workerVars>>

\* The server restarts and runs EnsureInitialAdmin before it serves.
Restart(email) ==
    /\ \A w \in Workers : pc[w] = "idle"
    /\ EnsureAdmin(email)
    /\ UNCHANGED <<clock, tables, grants, workerVars>>

\* An operator disables or enables an account.
SwitchAccount(u, value) ==
    /\ SetEnabled(u, value)
    /\ off' = [w \in Workers |-> IF value THEN off[w] \ {u} ELSE off[w]]
    /\ UNCHANGED <<clock, tables, grants, pc, req, now, found, origin, dead>>

Step(w) ==
    \/ \E r \in Requests : Begin(w, r)
    \/ Refuse(w)
    \/ FindLocalUser(w)
    \/ SaveEmailCode(w)
    \/ ConsumeEmailCode(w)
    \/ SaveOAuthRequest(w)
    \/ ConsumeOAuthRequest(w)
    \/ GoogleIdentity(w)
    \/ UpsertUser(w)
    \/ UpsertAuthentik(w)
    \/ ReadAuthentik(w)
    \/ ConsumeDesktopSsoTicket(w)
    \/ CreateSession(w)
    \/ SaveDesktopSsoTicket(w)
    \/ RequireCSRF(w)
    \/ CurrentUser(w)
    \/ SessionStartedAt(w)
    \/ Issue(w)
    \/ RevokeSession(w)

Next ==
    \/ \E w \in Workers : Step(w)
    \/ Tick
    \/ \E e \in AdminEmails : Restart(e)
    \/ \E u \in UserIds, b \in BOOLEAN : SwitchAccount(u, b)

Spec == Init /\ [][Next]_vars

-----------------------------------------------------------------------------
(* Properties *)

\* README: "One-time Desktop tickets"; the e-mail code and the OAuth state are
\* one-time too.  However many requests submit a secret at once, and wherever
\* a request fails, one secret leads to at most one session or ticket.
SingleUse ==
    /\ \A s1, s2 \in SessionIds :
          sessions[s1].origin = sessions[s2].origin => s1 = s2 \/ sessions[s1].origin = None
    /\ \A t1, t2 \in TicketIds :
          tickets[t1].origin = tickets[t2].origin => t1 = t2 \/ tickets[t1].origin = None
    /\ \A s \in SessionIds, t \in TicketIds :
          sessions[s].origin = tickets[t].origin => tickets[t].origin = None

\* u is the account of the verified identity k.
Owner(k, u) ==
    \/ k \in IdentityKeys /\ identity[k] = u
    \/ k \in {"authentik"} \X Subjects /\ u \in BySubject("authentik", k[2])

\* A session or ticket belongs to the account of whoever proved their identity
\* for it, still when other logins have since linked identities and changed
\* addresses: the account of the verified identity, of the mailbox the code
\* was saved for, or of the ticket that was exchanged.
RightOwner ==
    /\ \A s \in SessionIds :
          /\ sessions[s].via # None => Owner(sessions[s].via, sessions[s].user)
          /\ sessions[s].origin \in TicketIds =>
                sessions[s].user = tickets[sessions[s].origin].user
          /\ sessions[s].origin \in CodeIds =>
                sessions[s].via = <<"email_code", codes[sessions[s].origin].email>>
    /\ \A t \in TicketIds : tickets[t].via # None => Owner(tickets[t].via, tickets[t].user)

\* The session a worker acts for; the user it acts for.
ActsFor(w, u) == who[w] = u /\ u \notin off[w]

\* A JWT is signed, and an administrator write let through, only for the
\* session of the request's own cookie, and never when that session had been
\* revoked or had expired before the last of the request's reads began: a
\* logout between the three reads of desktopSsoToken, or between the check of
\* the role and the CSRF check of updateAdmin, takes effect at the next read.
GrantNeedsLiveSession ==
    [][\A g \in grants' \ grants :
          \E w \in Workers :
             /\ pc[w] = "issue" /\ pc'[w] = "idle"
             /\ g.session = req[w].cookie
             /\ g.session \notin dead[w]
             /\ g.user = sessions[g.session].user]_vars

\* No session, ticket, JWT or administrator write comes out for an account that
\* was disabled from before the request's check of ENABLED_ began until then,
\* although the account is read at different calls in the different handlers,
\* some of them after an exchange with Google or a write of the same request.
DisabledStaysOut ==
    [][/\ \A s \in SessionIds :
             sessions[s].status = "absent" /\ sessions'[s].status # "absent" =>
                \E w \in Workers : pc'[w] # pc[w] /\ ActsFor(w, sessions'[s].user)
       /\ \A t \in TicketIds :
             tickets[t].status = "absent" /\ tickets'[t].status # "absent" =>
                \E w \in Workers : pc'[w] # pc[w] /\ ActsFor(w, tickets'[t].user)
       /\ \A g \in grants' \ grants :
             \E w \in Workers : pc'[w] # pc[w] /\ ActsFor(w, g.user)]_vars

\* README: "Token renewal preserves this value".  Every desktop JWT of a
\* session carries the instant the session was created; market JWTs carry none.
RenewalKeepsStart ==
    \A g \in grants :
        g.started = IF g.kind = "desktopToken" THEN sessions[g.session].created ELSE None

\* Administrator writes are let through for accounts EnsureAdmin made only.
AdminSaveByAdmin ==
    \A g \in grants :
        g.kind = "adminSave" =>
            /\ users[g.user].provider = "local"
            /\ users[g.user].sub \in AdminEmails
=============================================================================
