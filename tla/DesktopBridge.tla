---------------------------- MODULE DesktopBridge ----------------------------
(***************************************************************************)
(* The browser's side of a desktop login: desktopSsoStart and              *)
(* desktopSsoContinue of internal/auth/server.go, and the two cookies that *)
(* carry callback and state of an attempt from the one to the other across *)
(* the login page.                                                         *)
(*                                                                         *)
(* All tabs of a browser share one cookie jar, so attempts overlap: a      *)
(* request carries the cookies of the instant it is sent, a response       *)
(* changes those of the instant it arrives.  A handler is one step here;   *)
(* AuthServer has its database calls one by one.  A cookie keeps a value   *)
(* only if it is made of cookie characters: net/http drops the others.     *)
(***************************************************************************)
EXTENDS Naturals, FiniteSets

CONSTANTS
    Tabs,      \* of one browser
    Attempts,  \* callback and state as a desktop application submits them
    Allowed,   \* with a callback isAllowedDesktopCallbackURL accepts, and a state
    Plain,     \* with a state of cookie characters
    Trusted,   \* endpoints some requests reach through the proxy that adds the bridge token
    Sessions,  \* tokens of browser sessions of one account
    Mangled,   \* what is left of a state that is not plain, None if that is nothing
    None       \* no attempt, no session, no cookie

ASSUME BridgeAssumption ==
    /\ Allowed \subseteq Attempts /\ Plain \subseteq Attempts
    /\ Trusted \subseteq {"start", "continue"}
    /\ None \notin Attempts \cup Sessions /\ Mangled \notin Attempts
    /\ Attempts \cap {"clear", "keep"} = {}

VARIABLES
    jar,      \* the two bridge cookies of the browser
    session,  \* its session cookie
    live,     \* sessions the database finds
    enabled,  \* ENABLED_ of the account
    pc,       \* tab: what it shows or waits for
    attempt,  \* tab: the attempt it was opened for
    sent,     \* tab: cookies of the request on its way
    reply,    \* tab: the response on its way, or the last redirect to a desktop
    spent,    \* history: attempts whose ticket has arrived, since their last start
    calm      \* history: nothing else has touched cookies or account since the tab opened

bridgeVars == <<jar, session, live, enabled, pc, attempt, sent, reply, spent, calm>>

Cookies == [callback: Attempts \cup {None}, state: Attempts \cup {Mangled, None}]
NoCookies == [callback |-> None, state |-> None]

Sent == [jar: Cookies, session: Sessions \cup {None}, spent: SUBSET Attempts]
NoRequest == [jar |-> NoCookies, session |-> None, spent |-> {}]

\* from: the endpoint; set: the attempt whose cookies it sets, "clear" or "keep".
Reply == [from: {"start", "continue"}, set: Attempts \cup {"clear", "keep"}, to: {"continue", "login", "desktop", "failed"},
          for: Cookies, ticket: BOOLEAN]
NoReply == [from |-> "start", set |-> "keep", to |-> "failed", for |-> NoCookies, ticket |-> FALSE]

Labels == {"away", "start", "continue", "answer", "login", "desktop", "failed"}

BridgeTypeOK ==
    /\ jar \in Cookies
    /\ session \in Sessions \cup {None}
    /\ live \subseteq Sessions
    /\ enabled \in BOOLEAN
    /\ pc \in [Tabs -> Labels]
    /\ attempt \in [Tabs -> Attempts \cup {None}]
    /\ sent \in [Tabs -> Sent]
    /\ reply \in [Tabs -> Reply]
    /\ spent \subseteq Attempts
    /\ calm \in [Tabs -> BOOLEAN]

Init ==
    /\ jar = NoCookies
    /\ session = None /\ live = {} /\ enabled = TRUE
    /\ pc = [t \in Tabs |-> "away"]
    /\ attempt = [t \in Tabs |-> None]
    /\ sent = [t \in Tabs |-> NoRequest]
    /\ reply = [t \in Tabs |-> NoReply]
    /\ spent = {}
    /\ calm = [t \in Tabs |-> FALSE]

Goto(t, label) == pc' = [pc EXCEPT ![t] = label]

\* The browser sends a request with the cookies it has after this step.
Send(t) == sent' = [sent EXCEPT ![t] = [jar |-> jar', session |-> session', spent |-> spent']]

\* Tab t does something the others may notice, or anybody does.
DisturbOthers(t) == calm' = [u \in Tabs |-> u = t /\ calm[t]]
Disturb == calm' = [u \in Tabs |-> FALSE]

-----------------------------------------------------------------------------
(* The handlers *)

\* What two cookies make of an attempt: desktopSsoBridgeCookie, http.SetCookie.
BridgeCookies(a) == [callback |-> a, state |-> IF a \in Plain THEN a ELSE Mangled]

\* Without a detour through cookies.
Direct(a) == [callback |-> a, state |-> a]

Respond(t, set, to, for, ticket) ==
    /\ reply' = [reply EXCEPT ![t] = [from |-> pc[t], set |-> set, to |-> to, for |-> for,
                                     ticket |-> ticket]]
    /\ sent' = [sent EXCEPT ![t] = NoRequest]
    /\ Goto(t, "answer")
    /\ UNCHANGED <<jar, session, live, enabled, attempt, spent, calm>>

\* FindUserBySession
SignedIn(t) == sent[t].session \in live

\* 400; nothing is stored of an attempt that is not allowed.
StartInvalid(t) ==
    /\ pc[t] = "start"
    /\ attempt[t] \notin Allowed
    /\ Respond(t, "keep", "failed", NoCookies, FALSE)

\* completeDesktopSsoBridge: a ticket, or an error for the desktop to show.
StartTrusted(t, ticket) ==
    /\ pc[t] = "start"
    /\ attempt[t] \in Allowed /\ "start" \in Trusted
    /\ Respond(t, "keep", "desktop", Direct(attempt[t]), ticket)

\* Mutant: the cookies are only set for a browser with a session.
StartForgets(t) ==
    LET known == SignedIn(t) /\ enabled IN
    /\ pc[t] = "start"
    /\ attempt[t] \in Allowed
    /\ Respond(t, IF known THEN attempt[t] ELSE "keep", IF known THEN "continue" ELSE "login",
               NoCookies, FALSE)

\* A disabled account, or a database that fails, is an error of currentUser too.
Start(t) ==
    /\ pc[t] = "start"
    /\ attempt[t] \in Allowed
    /\ \E to \in {"login"} \cup (IF SignedIn(t) /\ enabled THEN {"continue"} ELSE {}) :
          Respond(t, attempt[t], to, NoCookies, FALSE)

\* readDesktopSsoBridgeContext.  The callback in the cookie is checked again.
ValidContext(t) ==
    /\ sent[t].jar.callback \in Allowed
    /\ sent[t].jar.state # None

\* 400, and the cookies are cleared.
ContinueInvalid(t) ==
    /\ pc[t] = "continue"
    /\ ~ValidContext(t)
    /\ Respond(t, "clear", "failed", NoCookies, FALSE)

ContinueTrusted(t, ticket) ==
    /\ pc[t] = "continue"
    /\ ValidContext(t) /\ "continue" \in Trusted
    /\ Respond(t, "clear", "desktop", sent[t].jar, ticket)

\* ErrNotFound: the cookies wait for the login.
ContinueLogin(t) ==
    /\ pc[t] = "continue"
    /\ ValidContext(t)
    /\ ~SignedIn(t)
    /\ Respond(t, "keep", "login", NoCookies, FALSE)

\* A disabled account, or a database that fails in one of the two calls.
ContinueFails(t) ==
    /\ pc[t] = "continue"
    /\ ValidContext(t)
    /\ Respond(t, "clear", "desktop", sent[t].jar, FALSE)

\* Mutant: the cookies stay after a ticket.
ContinueTicketKept(t) ==
    /\ pc[t] = "continue"
    /\ ValidContext(t)
    /\ SignedIn(t) /\ enabled
    /\ Respond(t, "keep", "desktop", sent[t].jar, TRUE)

ContinueTicket(t) ==
    /\ pc[t] = "continue"
    /\ ValidContext(t)
    /\ SignedIn(t) /\ enabled
    /\ Respond(t, "clear", "desktop", sent[t].jar, TRUE)

Handle(t) ==
    \/ StartInvalid(t) \/ Start(t)
    \/ ContinueInvalid(t) \/ ContinueLogin(t) \/ ContinueFails(t) \/ ContinueTicket(t)
    \/ \E ticket \in BOOLEAN : StartTrusted(t, ticket) \/ ContinueTrusted(t, ticket)

-----------------------------------------------------------------------------
(* The browser *)

\* Mutant: the state cookie of an attempt under way is left alone.
SetCookieState(set) ==
    IF set = "keep" THEN jar
    ELSE IF set = "clear" THEN NoCookies
    ELSE [BridgeCookies(set) EXCEPT !.state = IF jar.state = None THEN @ ELSE jar.state]

\* The Set-Cookie headers of a response, applied together.
SetCookie(set) ==
    IF set = "keep" THEN jar
    ELSE IF set = "clear" THEN NoCookies
    ELSE BridgeCookies(set)

\* A desktop application opens the start URL.
Open(t, a) ==
    LET busy == {u \in Tabs \ {t} : pc[u] \in {"start", "continue", "answer"}} IN
    /\ pc[t] \in {"away", "desktop", "failed"}
    /\ attempt' = [attempt EXCEPT ![t] = a]
    /\ reply' = [reply EXCEPT ![t] = NoReply]
    /\ calm' = [u \in Tabs |-> u = t /\ busy = {} /\ enabled]
    /\ Goto(t, "start")
    /\ UNCHANGED <<jar, session, live, enabled, spent>>
    /\ Send(t)

\* The response arrives and its redirect is followed.
Arrive(t) ==
    LET r == reply[t] IN
    /\ pc[t] = "answer"
    /\ jar' = SetCookie(r.set)
    /\ spent' = IF r.from = "start" THEN spent \ {attempt[t]}
                ELSE IF r.ticket THEN spent \cup {r.for.callback} ELSE spent
    /\ UNCHANGED <<session, live, enabled, attempt>>
    /\ IF r.to = "continue" THEN Send(t) ELSE UNCHANGED sent
    /\ reply' = IF r.to = "desktop" THEN reply ELSE [reply EXCEPT ![t] = NoReply]
    /\ Goto(t, r.to)
    /\ DisturbOthers(t)

\* A login in this tab: the login page, or googleCallback, goes on to return_to.
SignIn(t, s) ==
    /\ pc[t] = "login"
    /\ enabled
    /\ s \notin live \cup {sent[u].session : u \in Tabs}
    /\ session' = s
    /\ live' = live \cup {s}
    /\ Goto(t, "continue")
    /\ DisturbOthers(t)
    /\ UNCHANGED <<jar, enabled, attempt, reply, spent>>
    /\ Send(t)

\* The user goes back, reloads, or has a session again by other means.
Continue(t) ==
    /\ pc[t] \in {"login", "desktop", "failed"}
    /\ Goto(t, "continue")
    /\ Disturb
    /\ reply' = [reply EXCEPT ![t] = NoReply]
    /\ UNCHANGED <<jar, session, live, enabled, attempt, spent>>
    /\ Send(t)

Close(t) ==
    /\ pc[t] # "away"
    /\ Goto(t, "away")
    /\ attempt' = [attempt EXCEPT ![t] = None]
    /\ sent' = [sent EXCEPT ![t] = NoRequest]
    /\ reply' = [reply EXCEPT ![t] = NoReply]
    /\ calm' = [calm EXCEPT ![t] = FALSE]
    /\ UNCHANGED <<jar, session, live, enabled, spent>>

\* A logout in another tab, or sessions that end.
SignOut ==
    /\ live # {}
    /\ session' = None /\ live' = {}
    /\ Disturb
    /\ UNCHANGED <<jar, enabled, pc, attempt, sent, reply, spent>>

\* The operator.
SwitchAccount ==
    /\ enabled' = ~enabled
    /\ Disturb
    /\ UNCHANGED <<jar, session, live, pc, attempt, sent, reply, spent>>

\* Ten minutes have passed, or the browser makes room; one cookie at a time.
Expire(cookie) ==
    /\ jar[cookie] # None
    /\ jar' = [jar EXCEPT ![cookie] = None]
    /\ Disturb
    /\ UNCHANGED <<session, live, enabled, pc, attempt, sent, reply, spent>>

Next ==
    \/ \E t \in Tabs :
          \/ Handle(t) \/ Arrive(t) \/ Continue(t) \/ Close(t)
          \/ \E a \in Attempts : Open(t, a)
          \/ \E s \in Sessions : SignIn(t, s)
    \/ SignOut \/ SwitchAccount
    \/ \E cookie \in {"callback", "state"} : Expire(cookie)

Spec == Init /\ [][Next]_bridgeVars

-----------------------------------------------------------------------------
(* Properties *)

\* A desktop gets its ticket or error with the state it has sent itself:
\* callback and state of a redirect belong to one allowed attempt, although
\* they travel in two cookies that other tabs set, clear and let expire.  Only
\* a state that no cookie can carry comes back changed.
RedirectUnmixed ==
    \A t \in Tabs :
        reply[t].to = "desktop" =>
            LET for == reply[t].for IN
            /\ for.callback \in Allowed
            /\ for.state = for.callback \/ for = BridgeCookies(for.callback)

\* A ticket is handed out once per start: a continue sent after the ticket of
\* an attempt has arrived (back, reload, another tab) gives no second one to
\* it, until the desktop starts it again.
NoReplay ==
    [][\A t \in Tabs :
          pc[t] = "continue" /\ pc'[t] = "answer" /\ reply'[t].ticket =>
              reply'[t].for.callback \notin sent[t].spent]_bridgeVars

\* An attempt that nothing else in the browser interferes with ends at its own
\* desktop or waits on the login page, whether or not there was a session when
\* it began: the cookies outlive the way through the login page, and it never
\* ends in an error page or at the desktop of an earlier attempt.  (A state
\* without a single cookie character leaves an empty cookie, which continue
\* takes for none.)
CalmComesHome ==
    \A t \in Tabs :
        calm[t] /\ attempt[t] \in Allowed /\ BridgeCookies(attempt[t]).state # None =>
            /\ pc[t] # "failed"
            /\ pc[t] = "desktop" => reply[t].for.callback = attempt[t]
=============================================================================
