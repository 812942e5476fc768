---------------------------- MODULE BridgeProofs ----------------------------
(***************************************************************************)
(* Proofs about DesktopBridge, for any number of tabs, attempts and        *)
(* sessions.                                                               *)
(*                                                                         *)
(* Whole and Unspent say what two cookies taken together always are, in    *)
(* the jar as in a request that left with them.  ResponseAt is what the    *)
(* handlers promise about the cookies they set.  UndisturbedAt follows an  *)
(* attempt nothing interferes with through every page of the login.        *)
(***************************************************************************)
EXTENDS DesktopBridge, TLAPS

\* Two cookies that are both there were set by one response.
Whole(cookies) ==
    cookies.callback # None /\ cookies.state # None =>
        cookies.callback \in Allowed /\ cookies = BridgeCookies(cookies.callback)

\* The attempt in the cookies has had no ticket since it was started.
Unspent(cookies, done) == cookies.callback \notin done

JarOK == Whole(jar) /\ Unspent(jar, spent)

RequestAt(t) == Whole(sent[t].jar) /\ Unspent(sent[t].jar, sent[t].spent)

\* Callback and state belong to one allowed attempt.
Matching(for) ==
    /\ for.callback \in Allowed
    /\ for.state = for.callback \/ for = BridgeCookies(for.callback)

\* What a response to tab t may say.
Answers(t, r) ==
    /\ r.to = "desktop" => Matching(r.for)
    /\ r.set \in Attempts => r.from = "start" /\ r.set = attempt[t] /\ attempt[t] \in Allowed
    /\ r.from = "continue" /\ r.ticket => r.set = "clear" /\ r.to = "desktop"

ResponseAt(t) ==
    /\ reply[t].to = "desktop" => Matching(reply[t].for)
    /\ pc[t] = "answer" => Answers(t, reply[t])

\* An attempt whose cookies the continue endpoint accepts.
Carried(a) == a \in Allowed /\ BridgeCookies(a).state # None

\* The response r takes tab t on towards its own desktop.
Leads(t, r) ==
    \/ r.to = "desktop" /\ r.for.callback = attempt[t]
    \/ r.to \in {"continue", "login"} /\ r.set = attempt[t]
    \/ r.to = "login" /\ r.set = "keep" /\ jar = BridgeCookies(attempt[t])

UndisturbedAt(t) ==
    calm[t] /\ Carried(attempt[t]) =>
        /\ pc[t] \in {"start", "answer", "login", "continue", "desktop"}
        /\ pc[t] = "answer" => Leads(t, reply[t])
        /\ pc[t] \in {"login", "continue"} => jar = BridgeCookies(attempt[t])
        /\ pc[t] = "continue" => sent[t].jar = jar
        /\ pc[t] = "desktop" => reply[t].for.callback = attempt[t]

TabAt(t) == RequestAt(t) /\ ResponseAt(t) /\ UndisturbedAt(t)

BridgeInv == BridgeTypeOK /\ JarOK /\ \A t \in Tabs : TabAt(t)

-----------------------------------------------------------------------------
(* Frames *)

\* The tabs other than t are where they were.
OthersStay(t) ==
    \A u \in Tabs \ {t} :
        /\ pc'[u] = pc[u] /\ attempt'[u] = attempt[u]
        /\ sent'[u] = sent[u] /\ reply'[u] = reply[u]

\* A tab that has not moved stays undisturbed, or is told that it is not.
Calmed(u) == calm'[u] => calm[u] /\ jar' = jar

LEMMA StayingTab ==
    ASSUME BridgeInv, NEW u \in Tabs, pc'[u] = pc[u], attempt'[u] = attempt[u],
           sent'[u] = sent[u], reply'[u] = reply[u], Calmed(u)
    PROVE  TabAt(u)'
<1>1. RequestAt(u) /\ ResponseAt(u) /\ UndisturbedAt(u)
  BY DEF BridgeInv, TabAt
<1>2. RequestAt(u)'
  BY <1>1 DEF RequestAt, Whole, Unspent, BridgeCookies
<1>3. ResponseAt(u)'
  BY <1>1 DEF ResponseAt, Answers, Matching, BridgeCookies
<1>4. UndisturbedAt(u)'
  BY <1>1 DEF UndisturbedAt, Carried, Leads, Calmed, BridgeCookies
<1>q. QED
  BY <1>2, <1>3, <1>4 DEF TabAt

\* Only tab t moves: it is enough to look at the jar and at t.
LEMMA OneTabMoves ==
    ASSUME BridgeInv, NEW t \in Tabs, OthersStay(t),
           \A u \in Tabs \ {t} : Calmed(u),
           BridgeTypeOK', JarOK', TabAt(t)'
    PROVE  BridgeInv'
<1>1. ASSUME NEW u \in Tabs PROVE TabAt(u)'
  <2>1. CASE u = t
    BY <2>1
  <2>2. CASE u # t
    BY <2>2, StayingTab DEF OthersStay
  <2>q. QED
    BY <2>1, <2>2
<1>q. QED
  BY <1>1 DEF BridgeInv

\* Cookies are made of an attempt and are whole.
LEMMA CookiesOfAttempt ==
    ASSUME NEW a \in Allowed
    PROVE  BridgeCookies(a) \in Cookies /\ Whole(BridgeCookies(a)) /\ BridgeCookies(a).callback = a
BY BridgeAssumption DEF BridgeCookies, Cookies, Whole

-----------------------------------------------------------------------------
(* The handlers *)

\* A handler that answers as Answers and Leads ask for.
LEMMA RespondKeeps ==
    ASSUME BridgeInv, NEW t \in Tabs, NEW set \in Attempts \cup {"clear", "keep"},
           NEW to \in {"continue", "login", "desktop", "failed"}, NEW for \in Cookies,
           NEW ticket \in BOOLEAN,
           pc[t] \in {"start", "continue"},
           Respond(t, set, to, for, ticket),
           Answers(t, [from |-> pc[t], set |-> set, to |-> to, for |-> for, ticket |-> ticket]),
           calm[t] /\ Carried(attempt[t]) =>
               Leads(t, [from |-> pc[t], set |-> set, to |-> to, for |-> for, ticket |-> ticket])
    PROVE  BridgeInv'
<1> DEFINE r == [from |-> pc[t], set |-> set, to |-> to, for |-> for, ticket |-> ticket]
<1>0. BridgeTypeOK /\ JarOK
  BY DEF BridgeInv
<1>1. r \in Reply
  BY DEF Reply
<1>2. NoRequest \in Sent
  BY DEF NoRequest, Sent, NoCookies, Cookies
<1> HIDE DEF r
<1>3. /\ reply' = [reply EXCEPT ![t] = r]
      /\ sent' = [sent EXCEPT ![t] = NoRequest]
      /\ pc' = [pc EXCEPT ![t] = "answer"]
      /\ UNCHANGED <<jar, session, live, enabled, attempt, spent, calm>>
  BY DEF Respond, Goto, r
<1>4. BridgeTypeOK'
  <2>1. pc' \in [Tabs -> Labels]
    BY <1>0, <1>3 DEF BridgeTypeOK, Labels
  <2>2. reply' \in [Tabs -> Reply] /\ sent' \in [Tabs -> Sent]
    BY <1>0, <1>1, <1>2, <1>3 DEF BridgeTypeOK
  <2>q. QED
    BY <2>1, <2>2, <1>0, <1>3 DEF BridgeTypeOK
<1>5. JarOK'
  BY <1>0, <1>3 DEF JarOK, Whole, Unspent, BridgeCookies
<1>6. reply'[t] = r /\ sent'[t] = NoRequest /\ pc'[t] = "answer"
  BY <1>0, <1>3 DEF BridgeTypeOK
<1>7. RequestAt(t)'
  BY <1>6 DEF RequestAt, NoRequest, NoCookies, Whole, Unspent
<1>8. ResponseAt(t)'
  BY <1>6, <1>3 DEF ResponseAt, Answers, Matching, BridgeCookies, r
<1>9. UndisturbedAt(t)'
  BY <1>6, <1>3 DEF UndisturbedAt, Leads, Carried, BridgeCookies, r
<1>10. OthersStay(t) /\ \A u \in Tabs \ {t} : Calmed(u)
  BY <1>0, <1>3 DEF OthersStay, Calmed, BridgeTypeOK
<1>q. QED
  BY <1>4, <1>5, <1>7, <1>8, <1>9, <1>10, OneTabMoves DEF TabAt

\* A valid context is that of one allowed attempt.
LEMMA ContextMatches ==
    ASSUME BridgeInv, NEW t \in Tabs, ValidContext(t)
    PROVE  sent[t].jar \in Cookies /\ Matching(sent[t].jar)
<1>1. RequestAt(t) /\ sent[t] \in Sent
  BY DEF BridgeInv, TabAt, BridgeTypeOK
<1>q. QED
  BY <1>1, BridgeAssumption DEF RequestAt, Whole, ValidContext, Matching, Sent

\* In an undisturbed tab the context is that of its own attempt.
LEMMA ContextOwn ==
    ASSUME BridgeInv, NEW t \in Tabs, pc[t] = "continue", calm[t], Carried(attempt[t])
    PROVE  /\ ValidContext(t) /\ sent[t].jar.callback = attempt[t]
           /\ jar = BridgeCookies(attempt[t])
<1>1. UndisturbedAt(t)
  BY DEF BridgeInv, TabAt
<1>q. QED
  BY <1>1 DEF UndisturbedAt, ValidContext, Carried, BridgeCookies

LEMMA HandleKeeps ==
    ASSUME BridgeInv, NEW t \in Tabs, Handle(t)
    PROVE  BridgeInv'
<1>0. /\ NoCookies \in Cookies /\ "clear" \notin Attempts /\ "keep" \notin Attempts
      /\ Allowed \subseteq Attempts
  BY BridgeAssumption DEF NoCookies, Cookies
<1>1. CASE StartInvalid(t)
  BY <1>0, <1>1, RespondKeeps DEF StartInvalid, Answers, Carried
<1>2. CASE Start(t)
  <2>1. PICK to \in {"continue", "login"} : Respond(t, attempt[t], to, NoCookies, FALSE)
    BY <1>2 DEF Start
  <2>q. QED
    BY <1>0, <1>2, <2>1, RespondKeeps DEF Start, Answers, Leads
<1>3. ASSUME NEW ticket \in BOOLEAN, StartTrusted(t, ticket)
      PROVE  BridgeInv'
  <2>1. Direct(attempt[t]) \in Cookies /\ Matching(Direct(attempt[t]))
        /\ Direct(attempt[t]).callback = attempt[t]
    BY <1>0, <1>3 DEF StartTrusted, Direct, Cookies, Matching
  <2>2. Respond(t, "keep", "desktop", Direct(attempt[t]), ticket) /\ pc[t] = "start"
    BY <1>3 DEF StartTrusted
  <2>q. QED
    BY <1>0, <2>1, <2>2, RespondKeeps DEF Answers, Leads
<1>4. CASE ContinueInvalid(t)
  BY <1>0, <1>4, ContextOwn, RespondKeeps DEF ContinueInvalid, Answers
<1>5. CASE ContinueLogin(t)
  BY <1>0, <1>5, ContextOwn, RespondKeeps DEF ContinueLogin, Answers, Leads
<1>6. CASE ContinueFails(t)
  BY <1>0, <1>6, ContextMatches, ContextOwn, RespondKeeps DEF ContinueFails, Answers, Leads
<1>7. CASE ContinueTicket(t)
  BY <1>0, <1>7, ContextMatches, ContextOwn, RespondKeeps DEF ContinueTicket, Answers, Leads
<1>8. ASSUME NEW ticket \in BOOLEAN, ContinueTrusted(t, ticket)
      PROVE  BridgeInv'
  BY <1>0, <1>8, ContextMatches, ContextOwn, RespondKeeps DEF ContinueTrusted, Answers, Leads
<1>q. QED
  BY <1>1, <1>2, <1>3, <1>4, <1>5, <1>6, <1>7, <1>8 DEF Handle

-----------------------------------------------------------------------------
(* The browser *)

\* A request takes the cookies of the moment.
LEMMA SendTakes ==
    ASSUME BridgeInv, NEW t \in Tabs, Send(t), jar' \in Cookies,
           session' \in Sessions \cup {None}, spent' \subseteq Attempts, JarOK'
    PROVE  /\ sent' \in [Tabs -> Sent]
           /\ sent'[t].jar = jar'
           /\ RequestAt(t)'
           /\ \A u \in Tabs \ {t} : sent'[u] = sent[u]
<1> DEFINE r == [jar |-> jar', session |-> session', spent |-> spent']
<1>1. r \in Sent
  BY DEF Sent
<1>2. sent \in [Tabs -> Sent] /\ sent' = [sent EXCEPT ![t] = r]
  BY DEF BridgeInv, BridgeTypeOK, Send
<1>3. sent' \in [Tabs -> Sent] /\ sent'[t] = r /\ \A u \in Tabs \ {t} : sent'[u] = sent[u]
  BY <1>1, <1>2
<1>4. r.jar = jar' /\ r.spent = spent'
  OBVIOUS
<1> HIDE DEF r
<1>5. RequestAt(t)'
  BY <1>3, <1>4 DEF RequestAt, JarOK, Whole, Unspent, BridgeCookies
<1>q. QED
  BY <1>3, <1>4, <1>5

LEMMA NoReplyTyped == NoReply \in Reply /\ NoReply.to # "desktop"
BY DEF NoReply, Reply, NoCookies, Cookies

LEMMA OpenKeeps ==
    ASSUME BridgeInv, NEW t \in Tabs, NEW a \in Attempts, Open(t, a)
    PROVE  BridgeInv'
<1>0. BridgeTypeOK /\ JarOK
  BY DEF BridgeInv
<1>1. /\ attempt' = [attempt EXCEPT ![t] = a]
      /\ reply' = [reply EXCEPT ![t] = NoReply]
      /\ pc' = [pc EXCEPT ![t] = "start"]
      /\ UNCHANGED <<jar, session, live, enabled, spent>>
      /\ Send(t)
      /\ \A u \in Tabs \ {t} : ~calm'[u]
  BY DEF Open, Goto
<1>2. JarOK'
  BY <1>0, <1>1 DEF JarOK, Whole, Unspent, BridgeCookies
<1>3. /\ sent' \in [Tabs -> Sent] /\ RequestAt(t)'
      /\ \A u \in Tabs \ {t} : sent'[u] = sent[u]
  BY <1>0, <1>1, <1>2, SendTakes DEF BridgeTypeOK
<1>4. BridgeTypeOK'
  <2>1. calm' \in [Tabs -> BOOLEAN]
    BY Zenon DEF Open
  <2>2. pc' \in [Tabs -> Labels]
    BY <1>0, <1>1 DEF BridgeTypeOK, Labels
  <2>3. attempt' \in [Tabs -> Attempts \cup {None}] /\ reply' \in [Tabs -> Reply]
    BY <1>0, <1>1, NoReplyTyped DEF BridgeTypeOK
  <2>q. QED
    BY <1>0, <1>1, <1>3, <2>1, <2>2, <2>3 DEF BridgeTypeOK
<1>5. pc'[t] = "start" /\ reply'[t] = NoReply
  BY <1>0, <1>1 DEF BridgeTypeOK
<1>6. ResponseAt(t)' /\ UndisturbedAt(t)'
  BY <1>5, NoReplyTyped DEF ResponseAt, UndisturbedAt
<1>7. OthersStay(t) /\ \A u \in Tabs \ {t} : Calmed(u)
  BY <1>0, <1>1, <1>3 DEF OthersStay, Calmed, BridgeTypeOK
<1>q. QED
  BY <1>2, <1>3, <1>4, <1>6, <1>7, OneTabMoves DEF TabAt

\* A response that arrives leaves the cookies of one attempt that has had no
\* ticket, or none.
LEMMA ArriveJar ==
    ASSUME BridgeInv, NEW t \in Tabs, Arrive(t)
    PROVE  jar' \in Cookies /\ spent' \subseteq Attempts /\ JarOK'
<1> DEFINE r == reply[t]
<1>0. /\ jar \in Cookies /\ spent \subseteq Attempts /\ r \in Reply /\ JarOK
      /\ attempt[t] \in Attempts \cup {None}
  BY DEF BridgeInv, BridgeTypeOK
<1>1. Answers(t, r)
  BY DEF BridgeInv, TabAt, ResponseAt, Arrive
<1>2. /\ jar' = SetCookie(r.set)
      /\ spent' = IF r.from = "start" THEN spent \ {attempt[t]}
                  ELSE IF r.ticket THEN spent \cup {r.for.callback} ELSE spent
  BY DEF Arrive
<1>3. r.set \in Attempts \cup {"clear", "keep"} /\ r.from \in {"start", "continue"}
      /\ r.to \in {"continue", "login", "desktop", "failed"}
      /\ r.for \in Cookies
  BY <1>0 DEF Reply
<1> HIDE DEF r
<1>4. CASE r.set \in Attempts
  <2>1. jar' = BridgeCookies(attempt[t]) /\ attempt[t] \in Allowed /\ spent' = spent \ {attempt[t]}
    BY <1>1, <1>2, <1>4, BridgeAssumption DEF Answers, SetCookie
  <2>2. BridgeCookies(attempt[t]) \in Cookies /\ Whole(BridgeCookies(attempt[t]))
        /\ BridgeCookies(attempt[t]).callback = attempt[t]
    BY <2>1, CookiesOfAttempt
  <2>q. QED
    BY <1>0, <2>1, <2>2 DEF JarOK, Whole, Unspent, BridgeCookies
<1>5. CASE r.set = "clear"
  <2>1. jar' = NoCookies /\ NoCookies \in Cookies
    BY <1>2, <1>5 DEF SetCookie, NoCookies, Cookies
  <2>2. spent' \subseteq Attempts
    <3>1. CASE r.from = "start" \/ ~r.ticket
      BY <1>0, <1>2, <3>1
    <3>2. CASE r.from = "continue" /\ r.ticket
      <4>1. spent' = spent \cup {r.for.callback}
        BY <1>2, <3>2
      <4>2. r.for.callback \in Attempts
        BY <1>0, <1>1, <3>2, BridgeAssumption DEF Answers, Matching
      <4>q. QED
        BY <1>0, <4>1, <4>2
    <3>q. QED
      BY <1>3, <3>1, <3>2
  <2>q. QED
    BY <2>1, <2>2, BridgeAssumption DEF JarOK, Whole, Unspent, NoCookies
<1>6. CASE r.set = "keep"
  <2>1. jar' = jar /\ spent' \subseteq spent
    BY <1>1, <1>2, <1>3, <1>6 DEF SetCookie, Answers
  <2>q. QED
    BY <1>0, <2>1 DEF JarOK, Whole, Unspent, BridgeCookies
<1>q. QED
  BY <1>3, <1>4, <1>5, <1>6

\* Where the response takes a tab that nothing interferes with.
LEMMA ArriveHome ==
    ASSUME BridgeInv, NEW t \in Tabs, Arrive(t), calm[t], Carried(attempt[t])
    PROVE  /\ reply[t].to \in {"continue", "login", "desktop"}
           /\ reply[t].to \in {"continue", "login"} => jar' = BridgeCookies(attempt[t])
           /\ reply[t].to = "desktop" => reply[t].for.callback = attempt[t]
<1> DEFINE r == reply[t]
<1>1. Leads(t, r)
  BY DEF BridgeInv, TabAt, UndisturbedAt, Arrive
<1>2. attempt[t] \notin {"clear", "keep"}
  BY BridgeAssumption DEF Carried
<1>3. jar' = SetCookie(r.set)
  BY DEF Arrive
<1>q. QED
  BY <1>1, <1>2, <1>3 DEF Leads, SetCookie

LEMMA ArriveKeeps ==
    ASSUME BridgeInv, NEW t \in Tabs, Arrive(t)
    PROVE  BridgeInv'
<1> DEFINE r == reply[t]
<1>0. BridgeTypeOK /\ jar' \in Cookies /\ spent' \subseteq Attempts /\ JarOK'
  BY ArriveJar DEF BridgeInv
<1>1. /\ UNCHANGED <<session, live, enabled, attempt>>
      /\ pc' = [pc EXCEPT ![t] = r.to]
      /\ reply' = IF r.to = "desktop" THEN reply ELSE [reply EXCEPT ![t] = NoReply]
      /\ IF r.to = "continue" THEN Send(t) ELSE UNCHANGED sent
      /\ calm' = [u \in Tabs |-> u = t /\ calm[t]]
  BY DEF Arrive, Goto, DisturbOthers
<1>2. r \in Reply /\ r.to \in {"continue", "login", "desktop", "failed"}
  BY <1>0 DEF BridgeTypeOK, Reply
<1>3. /\ sent' \in [Tabs -> Sent] /\ RequestAt(t)'
      /\ \A u \in Tabs \ {t} : sent'[u] = sent[u]
      /\ r.to = "continue" => sent'[t].jar = jar'
  <2>1. CASE r.to = "continue"
    BY <1>0, <1>1, <2>1, SendTakes DEF BridgeTypeOK
  <2>2. CASE r.to # "continue"
    <3>1. sent' = sent /\ RequestAt(t)
      BY <1>1, <2>2 DEF BridgeInv, TabAt
    <3>q. QED
      BY <1>0, <2>2, <3>1 DEF BridgeTypeOK, RequestAt, Whole, Unspent, BridgeCookies
  <2>q. QED
    BY <2>1, <2>2
<1>4. BridgeTypeOK'
  <2>1. calm' \in [Tabs -> BOOLEAN]
    BY <1>1, Zenon
  <2>2. pc' \in [Tabs -> Labels]
    BY <1>0, <1>1, <1>2 DEF BridgeTypeOK, Labels
  <2>3. reply' \in [Tabs -> Reply]
    BY <1>0, <1>1, NoReplyTyped DEF BridgeTypeOK
  <2>q. QED
    BY <1>0, <1>1, <1>3, <2>1, <2>2, <2>3 DEF BridgeTypeOK
<1>5. /\ pc'[t] = r.to
      /\ reply'[t] = IF r.to = "desktop" THEN r ELSE NoReply
      /\ calm'[t] => calm[t]
      /\ attempt'[t] = attempt[t]
      /\ \A u \in Tabs \ {t} : ~calm'[u]
  BY <1>0, <1>1 DEF BridgeTypeOK
<1>6. Answers(t, r)
  BY DEF BridgeInv, TabAt, ResponseAt, Arrive
<1>7. ResponseAt(t)'
  BY <1>2, <1>5, <1>6, NoReplyTyped DEF ResponseAt, Answers, Matching, BridgeCookies
<1>8. UndisturbedAt(t)'
  <2> SUFFICES ASSUME calm[t], Carried(attempt[t])
               PROVE  UndisturbedAt(t)'
    BY <1>5 DEF UndisturbedAt, Carried, BridgeCookies
  <2>1. /\ r.to \in {"continue", "login", "desktop"}
        /\ r.to \in {"continue", "login"} => jar' = BridgeCookies(attempt[t])
        /\ r.to = "desktop" => r.for.callback = attempt[t]
    BY ArriveHome
  <2>q. QED
    BY <1>3, <1>5, <2>1 DEF UndisturbedAt, BridgeCookies
<1>9. OthersStay(t) /\ \A u \in Tabs \ {t} : Calmed(u)
  BY <1>0, <1>1, <1>3, <1>5 DEF OthersStay, Calmed, BridgeTypeOK
<1>q. QED
  BY <1>0, <1>3, <1>4, <1>7, <1>8, <1>9, OneTabMoves DEF TabAt

LEMMA SignInKeeps ==
    ASSUME BridgeInv, NEW t \in Tabs, NEW s \in Sessions, SignIn(t, s)
    PROVE  BridgeInv'
<1>0. BridgeTypeOK /\ JarOK /\ TabAt(t)
  BY DEF BridgeInv
<1>1. /\ session' = s /\ live' = live \cup {s}
      /\ pc' = [pc EXCEPT ![t] = "continue"] /\ pc[t] = "login"
      /\ calm' = [u \in Tabs |-> u = t /\ calm[t]]
      /\ UNCHANGED <<jar, enabled, attempt, reply, spent>>
      /\ Send(t)
  BY DEF SignIn, Goto, DisturbOthers
<1>2. JarOK'
  BY <1>0, <1>1 DEF JarOK, Whole, Unspent, BridgeCookies
<1>3. /\ sent' \in [Tabs -> Sent] /\ RequestAt(t)' /\ sent'[t].jar = jar'
      /\ \A u \in Tabs \ {t} : sent'[u] = sent[u]
  BY <1>0, <1>1, <1>2, SendTakes DEF BridgeTypeOK
<1>4. BridgeTypeOK'
  <2>1. calm' \in [Tabs -> BOOLEAN]
    BY <1>1, Zenon
  <2>2. pc' \in [Tabs -> Labels] /\ session' \in Sessions \cup {None} /\ live' \subseteq Sessions
    BY <1>0, <1>1 DEF BridgeTypeOK, Labels
  <2>q. QED
    BY <1>0, <1>1, <1>3, <2>1, <2>2 DEF BridgeTypeOK
<1>5. /\ pc'[t] = "continue"
      /\ calm'[t] => calm[t]
      /\ \A u \in Tabs \ {t} : ~calm'[u]
  BY <1>0, <1>1 DEF BridgeTypeOK
<1>6. ResponseAt(t)'
  BY <1>0, <1>1, <1>5 DEF TabAt, ResponseAt, Matching, BridgeCookies
<1>7. UndisturbedAt(t)'
  BY <1>0, <1>1, <1>3, <1>5 DEF TabAt, UndisturbedAt, Carried, BridgeCookies
<1>8. OthersStay(t) /\ \A u \in Tabs \ {t} : Calmed(u)
  BY <1>0, <1>1, <1>3, <1>5 DEF OthersStay, Calmed, BridgeTypeOK
<1>q. QED
  BY <1>2, <1>3, <1>4, <1>6, <1>7, <1>8, OneTabMoves DEF TabAt

LEMMA ContinueKeeps ==
    ASSUME BridgeInv, NEW t \in Tabs, Continue(t)
    PROVE  BridgeInv'
<1>0. BridgeTypeOK /\ JarOK
  BY DEF BridgeInv
<1>1. /\ pc' = [pc EXCEPT ![t] = "continue"]
      /\ reply' = [reply EXCEPT ![t] = NoReply]
      /\ calm' = [u \in Tabs |-> FALSE]
      /\ UNCHANGED <<jar, session, live, enabled, attempt, spent>>
      /\ Send(t)
  BY DEF Continue, Goto, Disturb
<1>2. JarOK'
  BY <1>0, <1>1 DEF JarOK, Whole, Unspent, BridgeCookies
<1>3. /\ sent' \in [Tabs -> Sent] /\ RequestAt(t)'
      /\ \A u \in Tabs \ {t} : sent'[u] = sent[u]
  BY <1>0, <1>1, <1>2, SendTakes DEF BridgeTypeOK
<1>4. BridgeTypeOK'
  <2>1. pc' \in [Tabs -> Labels] /\ calm' \in [Tabs -> BOOLEAN]
    BY <1>0, <1>1 DEF BridgeTypeOK, Labels
  <2>2. reply' \in [Tabs -> Reply]
    BY <1>0, <1>1, NoReplyTyped DEF BridgeTypeOK
  <2>q. QED
    BY <1>0, <1>1, <1>3, <2>1, <2>2 DEF BridgeTypeOK
<1>5. pc'[t] = "continue" /\ reply'[t] = NoReply /\ \A u \in Tabs : ~calm'[u]
  BY <1>0, <1>1 DEF BridgeTypeOK
<1>6. ResponseAt(t)' /\ UndisturbedAt(t)'
  BY <1>5, NoReplyTyped DEF ResponseAt, UndisturbedAt
<1>7. OthersStay(t) /\ \A u \in Tabs \ {t} : Calmed(u)
  BY <1>0, <1>1, <1>3, <1>5 DEF OthersStay, Calmed, BridgeTypeOK
<1>q. QED
  BY <1>2, <1>3, <1>4, <1>6, <1>7, OneTabMoves DEF TabAt

LEMMA CloseKeeps ==
    ASSUME BridgeInv, NEW t \in Tabs, Close(t)
    PROVE  BridgeInv'
<1>0. BridgeTypeOK /\ JarOK
  BY DEF BridgeInv
<1>1. /\ pc' = [pc EXCEPT ![t] = "away"]
      /\ attempt' = [attempt EXCEPT ![t] = None]
      /\ sent' = [sent EXCEPT ![t] = NoRequest]
      /\ reply' = [reply EXCEPT ![t] = NoReply]
      /\ calm' = [calm EXCEPT ![t] = FALSE]
      /\ UNCHANGED <<jar, session, live, enabled, spent>>
  BY DEF Close, Goto
<1>2. JarOK'
  BY <1>0, <1>1 DEF JarOK, Whole, Unspent, BridgeCookies
<1>3. BridgeTypeOK'
  <2>1. NoRequest \in Sent
    BY DEF NoRequest, Sent, NoCookies, Cookies
  <2>2. pc' \in [Tabs -> Labels] /\ calm' \in [Tabs -> BOOLEAN]
    BY <1>0, <1>1 DEF BridgeTypeOK, Labels
  <2>3. /\ attempt' \in [Tabs -> Attempts \cup {None}]
        /\ sent' \in [Tabs -> Sent] /\ reply' \in [Tabs -> Reply]
    BY <1>0, <1>1, <2>1, NoReplyTyped DEF BridgeTypeOK
  <2>q. QED
    BY <1>0, <1>1, <2>2, <2>3 DEF BridgeTypeOK
<1>4. pc'[t] = "away" /\ reply'[t] = NoReply /\ sent'[t] = NoRequest /\ ~calm'[t]
  BY <1>0, <1>1 DEF BridgeTypeOK
<1>5. RequestAt(t)'
  BY <1>4 DEF RequestAt, NoRequest, NoCookies, Whole, Unspent
<1>6. ResponseAt(t)' /\ UndisturbedAt(t)'
  BY <1>4, NoReplyTyped DEF ResponseAt, UndisturbedAt
<1>7. OthersStay(t) /\ \A u \in Tabs \ {t} : Calmed(u)
  BY <1>0, <1>1 DEF OthersStay, Calmed, BridgeTypeOK
<1>q. QED
  BY <1>2, <1>3, <1>5, <1>6, <1>7, OneTabMoves DEF TabAt

\* What happens to the session, the account or a cookie on its own ends the
\* calm of every tab and moves none.
LEMMA SurroundingsKeep ==
    ASSUME BridgeInv,
           SignOut \/ SwitchAccount \/ \E cookie \in {"callback", "state"} : Expire(cookie)
    PROVE  BridgeInv'
<1>0. BridgeTypeOK /\ JarOK
  BY DEF BridgeInv
<1>1. calm' = [u \in Tabs |-> FALSE] /\ UNCHANGED <<pc, attempt, sent, reply, spent>>
  BY DEF SignOut, SwitchAccount, Expire, Disturb
<1>2. /\ jar' \in Cookies
      /\ \/ jar' = jar
         \/ jar'.callback = None
         \/ jar'.state = None /\ jar'.callback = jar.callback
  BY <1>0 DEF SignOut, SwitchAccount, Expire, BridgeTypeOK, Cookies
<1>3. JarOK'
  BY <1>0, <1>1, <1>2, BridgeAssumption DEF JarOK, Whole, Unspent, BridgeCookies, BridgeTypeOK
<1>4. /\ session' \in Sessions \cup {None} /\ live' \subseteq Sessions
      /\ enabled' \in BOOLEAN
  BY <1>0 DEF SignOut, SwitchAccount, Expire, BridgeTypeOK
<1>5. BridgeTypeOK'
  BY <1>0, <1>1, <1>2, <1>4 DEF BridgeTypeOK
<1>6. ASSUME NEW u \in Tabs PROVE TabAt(u)'
  BY <1>1, StayingTab DEF Calmed
<1>q. QED
  BY <1>3, <1>5, <1>6 DEF BridgeInv

-----------------------------------------------------------------------------
(* Theorems *)

LEMMA BridgeInit == Init => BridgeInv
<1> SUFFICES ASSUME Init PROVE BridgeInv
  OBVIOUS
<1>1. /\ NoCookies \in Cookies
      /\ NoRequest \in Sent /\ NoReply \in Reply
  BY NoReplyTyped DEF NoRequest, Sent, NoCookies, Cookies
<1>2. BridgeTypeOK
  BY <1>1 DEF Init, BridgeTypeOK, Labels
<1>3. JarOK
  BY DEF Init, JarOK, Whole, Unspent, NoCookies
<1>4. ASSUME NEW t \in Tabs PROVE TabAt(t)
  <2>1. sent[t] = NoRequest /\ reply[t] = NoReply /\ pc[t] = "away" /\ ~calm[t]
    BY DEF Init
  <2>2. RequestAt(t)
    BY <2>1 DEF RequestAt, NoRequest, NoCookies, Whole, Unspent
  <2>3. ResponseAt(t) /\ UndisturbedAt(t)
    BY <2>1, NoReplyTyped DEF ResponseAt, UndisturbedAt
  <2>q. QED
    BY <2>2, <2>3 DEF TabAt
<1>q. QED
  BY <1>2, <1>3, <1>4 DEF BridgeInv

LEMMA BridgeStep == BridgeInv /\ [Next]_bridgeVars => BridgeInv'
<1> SUFFICES ASSUME BridgeInv, [Next]_bridgeVars PROVE BridgeInv'
  OBVIOUS
<1>1. CASE UNCHANGED bridgeVars
  <2>1. BridgeTypeOK' /\ JarOK'
    BY <1>1 DEF bridgeVars, BridgeInv, BridgeTypeOK, JarOK, Whole, Unspent, BridgeCookies
  <2>2. ASSUME NEW u \in Tabs PROVE TabAt(u)'
    BY <1>1, StayingTab DEF bridgeVars, Calmed
  <2>q. QED
    BY <2>1, <2>2 DEF BridgeInv
<1>2. ASSUME NEW t \in Tabs,
             \/ Handle(t) \/ Arrive(t) \/ Continue(t) \/ Close(t)
             \/ \E a \in Attempts : Open(t, a)
             \/ \E s \in Sessions : SignIn(t, s)
      PROVE  BridgeInv'
  BY <1>2, HandleKeeps, ArriveKeeps, ContinueKeeps, CloseKeeps, OpenKeeps, SignInKeeps
<1>q. QED
  BY <1>1, <1>2, SurroundingsKeep DEF Next

\* The inductive invariant of the browser's side of a desktop login.
THEOREM BridgeInvariant == Spec => []BridgeInv
BY BridgeInit, BridgeStep, PTL DEF Spec

\* Cookies, requests and responses have their types.
THEOREM BridgeTypeCorrect == Spec => []BridgeTypeOK
<1>1. BridgeInv => BridgeTypeOK
  BY DEF BridgeInv
<1>q. QED
  BY <1>1, BridgeInvariant, PTL

\* RedirectUnmixed: callback and state in a redirect to a desktop belong to one
\* allowed attempt, although they travel in two cookies that all tabs share.
THEOREM RedirectsNeverMixed == Spec => []RedirectUnmixed
<1>1. BridgeInv => RedirectUnmixed
  BY DEF BridgeInv, TabAt, ResponseAt, Matching, RedirectUnmixed
<1>q. QED
  BY <1>1, BridgeInvariant, PTL

\* CalmComesHome: an attempt nothing interferes with ends at its own desktop or
\* waits on the login page.
THEOREM CalmAlwaysComesHome == Spec => []CalmComesHome
<1>1. BridgeInv => CalmComesHome
  BY DEF BridgeInv, TabAt, UndisturbedAt, Carried, CalmComesHome
<1>q. QED
  BY <1>1, BridgeInvariant, PTL

\* NoReplay: a continue sent after the ticket of an attempt has arrived gives
\* it no second one.
THEOREM TicketsNeverReplayed == Spec => NoReplay
<1> DEFINE NoneAgain == \A t \in Tabs :
               pc[t] = "continue" /\ pc'[t] = "answer" /\ reply'[t].ticket =>
                   reply'[t].for.callback \notin sent[t].spent
<1>1. BridgeInv /\ [Next]_bridgeVars => [NoneAgain]_bridgeVars
  <2> SUFFICES ASSUME BridgeInv, Next, NEW t \in Tabs,
                      pc[t] = "continue", pc'[t] = "answer", reply'[t].ticket
               PROVE  reply'[t].for.callback \notin sent[t].spent
    BY DEF bridgeVars
  <2>1. RequestAt(t) /\ BridgeTypeOK
    BY DEF BridgeInv, TabAt
  <2>2. Handle(t)
    BY <2>1 DEF Next, Handle, StartInvalid, Start, StartTrusted, ContinueInvalid, ContinueLogin,
                ContinueFails, ContinueTicket, ContinueTrusted, Respond, Arrive, Continue, Close,
                Open, SignIn, SignOut, SwitchAccount, Expire, Goto, BridgeTypeOK
  <2>3. reply'[t].for = sent[t].jar
    BY <2>1, <2>2 DEF Handle, StartInvalid, Start, StartTrusted, ContinueInvalid, ContinueLogin,
                      ContinueFails, ContinueTicket, ContinueTrusted, Respond, BridgeTypeOK
  <2>q. QED
    BY <2>1, <2>3 DEF RequestAt, Unspent
<1>q. QED
  BY <1>1, BridgeInvariant, PTL DEF Spec, NoReplay
=============================================================================
