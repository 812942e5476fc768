---------------------------- MODULE RateLimiter -----------------------------
(***************************************************************************)
(* The fixed-window rate limiter of internal/auth/request_security.go in   *)
(* front of the login endpoints.  Handlers evaluate s.now(), then wait for *)
(* the mutex of allow: the now a call compares with may be older than the  *)
(* clock when it holds the mutex, and calls may take the mutex in another  *)
(* order than that of their instants.  MaxDelay bounds that wait.          *)
(*                                                                         *)
(* Every key has one limit (the endpoint is part of the key) and all keys  *)
(* share one window, as in server.go.  The map lives in memory: a restart  *)
(* empties it, which is where a behaviour of this module starts.           *)
(***************************************************************************)
EXTENDS Integers, FiniteSets

CONSTANTS
    Keys,      \* endpoint and client: "email-verify:<ip>:<address>", ...
    Callers,   \* handlers running concurrently
    Limit,     \* calls let through per window: a function of the key
    Window,    \* 15 minutes
    SweepAge,  \* 30 minutes: age from which the sweep drops an entry
    Capacity,  \* 10 000: the sweep runs when the map holds more
    MaxDelay,  \* bound on the time between s.now() and the mutex
    MaxTime,   \* bound on the clock
    None       \* no key

ASSUME RateLimiterAssumption ==
    /\ Limit \in [Keys -> Nat \ {0}]
    /\ Window \in Nat \ {0} /\ Capacity \in Nat /\ MaxTime \in Nat
    /\ MaxDelay \in Nat /\ MaxDelay < Window
    /\ None \notin Keys
    /\ SweepAge \in Nat /\ Window + MaxDelay <= SweepAge

VARIABLES
    clock,
    entries,  \* key: its entry, count 0 when the map has none
    call,     \* handler: the key and now of its pending allow
    log       \* history, per key: the calls let through

limiterVars == <<clock, entries, call, log>>

Times == 0 .. MaxTime
Entry == [count: Nat, windowStart: Nat]
NoEntry == [count |-> 0, windowStart |-> 0]

\* The pending call of a handler: no key between two requests.
Pending == [key: Keys \cup {None}, now: Nat]
NoCall == [key |-> None, now |-> 0]

\* A call let through: the window it was counted in, its number in that
\* window, and when it held the mutex.
Passed == [windowStart: Nat, slot: Nat, at: Nat]

LimiterTypeOK ==
    /\ clock \in Times
    /\ entries \in [Keys -> Entry]
    /\ call \in [Callers -> Pending]
    /\ log \in [Keys -> SUBSET Passed]

Init ==
    /\ clock = 0
    /\ entries = [k \in Keys |-> NoEntry]
    /\ call = [c \in Callers |-> NoCall]
    /\ log = [k \in Keys |-> {}]

-----------------------------------------------------------------------------
\* A handler builds its key and evaluates s.now().
Request(c, k) ==
    /\ call[c] = NoCall
    /\ call' = [call EXCEPT ![c] = [key |-> k, now |-> clock]]
    /\ UNCHANGED <<clock, entries, log>>

\* Mutant: the sweep drops every entry.
SweepAll(now) ==
    IF Cardinality({k \in Keys : entries[k].count > 0}) > Capacity
    THEN [k \in Keys |-> NoEntry] ELSE entries

\* The map after the sweep that allow starts with.
Sweep(now) ==
    IF Cardinality({k \in Keys : entries[k].count > 0}) > Capacity
    THEN [k \in Keys |-> IF now - entries[k].windowStart >= SweepAge THEN NoEntry
                         ELSE entries[k]]
    ELSE entries

\* No window of the key is open at now.
Expired(entry, now) == entry.count = 0 \/ now - entry.windowStart >= Window

Return(c) == call' = [call EXCEPT ![c] = NoCall]

LetThrough(k, entry) ==
    log' = [log EXCEPT ![k] = @ \cup {[windowStart |-> entry.windowStart,
                                       slot |-> entry.count, at |-> clock]}]

\* allow opens a window.
Open(c) ==
    LET k == call[c].key
        now == call[c].now
        swept == Sweep(now)
        entry == [count |-> 1, windowStart |-> now]
    IN  /\ call[c] # NoCall
        /\ Expired(swept[k], now)
        /\ entries' = [swept EXCEPT ![k] = entry]
        /\ LetThrough(k, entry)
        /\ Return(c)
        /\ UNCHANGED clock

\* Mutant: the window slides with every call.
CountSliding(c) ==
    LET k == call[c].key
        now == call[c].now
        swept == Sweep(now)
        entry == [count |-> swept[k].count + 1, windowStart |-> now]
    IN  /\ call[c] # NoCall
        /\ ~Expired(swept[k], now)
        /\ swept[k].count < Limit[k]
        /\ entries' = [swept EXCEPT ![k] = entry]
        /\ LetThrough(k, entry)
        /\ Return(c)
        /\ UNCHANGED clock

\* allow counts the call in the open window.
Count(c) ==
    LET k == call[c].key
        now == call[c].now
        swept == Sweep(now)
        entry == [swept[k] EXCEPT !.count = @ + 1]
    IN  /\ call[c] # NoCall
        /\ ~Expired(swept[k], now)
        /\ swept[k].count < Limit[k]
        /\ entries' = [swept EXCEPT ![k] = entry]
        /\ LetThrough(k, entry)
        /\ Return(c)
        /\ UNCHANGED clock

\* allow denies: the handler answers rate_limited.
Deny(c) ==
    LET k == call[c].key
        now == call[c].now
        swept == Sweep(now)
    IN  /\ call[c] # NoCall
        /\ ~Expired(swept[k], now)
        /\ swept[k].count >= Limit[k]
        /\ entries' = swept
        /\ Return(c)
        /\ UNCHANGED <<clock, log>>

\* Time passes; no caller waits for the mutex longer than MaxDelay.
Tick ==
    /\ clock < MaxTime
    /\ \A c \in Callers : call[c] # NoCall => clock < call[c].now + MaxDelay
    /\ clock' = clock + 1
    /\ UNCHANGED <<entries, call, log>>

Next ==
    \/ \E c \in Callers :
          \/ \E k \in Keys : Request(c, k)
          \/ Open(c) \/ Count(c) \/ Deny(c)
    \/ Tick

Spec == Init /\ [][Next]_limiterVars

-----------------------------------------------------------------------------
(* Properties *)

\* However calls and sweeps interleave, within Window - MaxDelay of any instant
\* no more than twice the limit is let through for a key: the fixed
\* window admits one burst at its end and one at the start of the next, and
\* the sweep never forgets an open window.
RateBound ==
    \A k \in Keys, t \in Times :
        Cardinality({d \in log[k] : t <= d.at /\ d.at <= t + Window - MaxDelay})
            <= 2 * Limit[k]

\* A call is denied only when the full limit was let through less than a
\* Window before it: nobody is locked out by an old or swept entry.
DenialJustified ==
    [][\A c \in Callers :
          call[c] # NoCall /\ call'[c] = NoCall /\ log' = log =>
              Cardinality({d \in log[call[c].key] : d.at > call[c].now - Window})
                  >= Limit[call[c].key]]_limiterVars
=============================================================================
