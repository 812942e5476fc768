------------------------- MODULE RateLimiterProofs --------------------------
(***************************************************************************)
(* Proofs about RateLimiter, for any keys, handlers, limits and instants.  *)
(*                                                                         *)
(* The bound rests on three facts about the calls let through for a key:   *)
(* the windows they were counted in lie a whole Window apart, no two of    *)
(* them have the same number in the same window, and each held the mutex   *)
(* less than Window + MaxDelay after its window opened.  For these to be   *)
(* inductive the entry in the map must be the newest window, and a key     *)
(* that the sweep has dropped must have no window that a late caller could *)
(* still have been counted in: that needs Window + MaxDelay <= SweepAge.   *)
(***************************************************************************)
EXTENDS RateLimiter, FiniteSetTheorems, TLAPS

\* The entry of key k in the map, before or after a sweep, matches the log.
Counted(k, entry) ==
    /\ entry \in Entry
    /\ entry.count <= Limit[k]
    /\ entry.count > 0 =>
          /\ entry.windowStart <= clock
          /\ \A d \in log[k] :
                \/ d.windowStart = entry.windowStart /\ d.slot <= entry.count
                \/ d.windowStart + Window <= entry.windowStart
          /\ \A i \in 1 .. entry.count :
                \E d \in log[k] : d.windowStart = entry.windowStart /\ d.slot = i
    /\ entry.count = 0 => \A d \in log[k] : d.windowStart + Window + MaxDelay <= clock

\* The calls let through for key k.
Windows(k) ==
    /\ IsFiniteSet(log[k])
    /\ \A d \in log[k] : /\ d.slot \in 1 .. Limit[k]
                         /\ d.windowStart <= d.at /\ d.at <= clock
                         /\ d.at < d.windowStart + Window + MaxDelay
    /\ \A d, e \in log[k] : d.windowStart = e.windowStart /\ d.slot = e.slot => d = e
    /\ \A d, e \in log[k] : \/ d.windowStart = e.windowStart
                            \/ d.windowStart + Window <= e.windowStart
                            \/ e.windowStart + Window <= d.windowStart

\* A handler in front of the mutex is not later than MaxDelay.
Timely ==
    \A c \in Callers :
        call[c] # NoCall =>
            call[c].key \in Keys /\ call[c].now <= clock /\ clock <= call[c].now + MaxDelay

LimiterInv ==
    /\ LimiterTypeOK
    /\ \A k \in Keys : Counted(k, entries[k]) /\ Windows(k)
    /\ Timely

-----------------------------------------------------------------------------
\* The sweep keeps every entry in step with the log.
LEMMA SweepCounted ==
    ASSUME LimiterInv, NEW c \in Callers, call[c] # NoCall
    PROVE  /\ Sweep(call[c].now) \in [Keys -> Entry]
           /\ \A k \in Keys : Counted(k, Sweep(call[c].now)[k])
<1> DEFINE now == call[c].now
<1>1. /\ now \in Nat /\ clock \in Nat /\ now <= clock
      /\ entries \in [Keys -> Entry] /\ \A k \in Keys : Counted(k, entries[k])
  BY DEF LimiterInv, LimiterTypeOK, Timely, Pending, Times
<1>2. \A k \in Keys : /\ entries[k].windowStart \in Nat /\ entries[k].count \in Nat
                      /\ \A d \in log[k] : d.windowStart \in Nat
  BY <1>1 DEF LimiterInv, LimiterTypeOK, Entry, Passed
<1>3. NoEntry \in Entry /\ NoEntry.count = 0
  BY DEF NoEntry, Entry
<1>4. ASSUME NEW k \in Keys, now - entries[k].windowStart >= SweepAge
      PROVE  Counted(k, NoEntry)
  <2>1. Window \in Nat /\ MaxDelay \in Nat /\ SweepAge \in Nat /\ Window + MaxDelay <= SweepAge
        /\ Limit[k] \in Nat
    BY RateLimiterAssumption
  <2>2. entries[k].windowStart + Window + MaxDelay <= clock
    BY <1>1, <1>2, <1>4, <2>1
  <2>3. \A d \in log[k] : d.windowStart + Window + MaxDelay <= clock
    BY <1>1, <1>2, <2>1, <2>2 DEF Counted
  <2> QED
    BY <1>3, <2>1, <2>3 DEF Counted
<1> HIDE DEF now
<1>5. Sweep(now) \in [Keys -> Entry] /\ \A k \in Keys : Counted(k, Sweep(now)[k])
  BY <1>1, <1>3, <1>4 DEF Sweep
<1> QED
  BY <1>5 DEF now

\* What a new record must satisfy to be added to the log of a key.
Fits(k, d) ==
    /\ d \in Passed
    /\ d.slot \in 1 .. Limit[k] /\ d.windowStart <= d.at /\ d.at = clock
    /\ d.at < d.windowStart + Window + MaxDelay
    /\ \A e \in log[k] : \/ e.windowStart = d.windowStart /\ e.slot < d.slot
                         \/ e.windowStart + Window <= d.windowStart

\* Adding it keeps the windows apart; it was not in the log before.
LEMMA FitsWindows ==
    ASSUME LimiterInv, NEW k \in Keys, NEW d, Fits(k, d), UNCHANGED clock,
           log' = [log EXCEPT ![k] = @ \cup {d}]
    PROVE  /\ log' \in [Keys -> SUBSET Passed]
           /\ \A q \in Keys : Windows(q)'
           /\ log' # log
<1>1. log \in [Keys -> SUBSET Passed] /\ Windows(k) /\ log'[k] = log[k] \cup {d}
  BY DEF LimiterInv, LimiterTypeOK
<1>2. log' \in [Keys -> SUBSET Passed]
  BY <1>1 DEF Fits
<1>3. Window \in Nat /\ Window > 0
  BY RateLimiterAssumption
<1>4. d \notin log[k]
  <2>1. d.windowStart \in Nat /\ d.slot \in Nat
    BY DEF Fits, Passed
  <2> QED
    BY <1>3, <2>1 DEF Fits
<1>5. IsFiniteSet(log'[k])
  BY <1>1, FS_AddElement DEF Windows
<1>6. \A e \in log'[k] : /\ e.slot \in 1 .. Limit[k]
                         /\ e.windowStart <= e.at /\ e.at <= clock'
                         /\ e.at < e.windowStart + Window + MaxDelay
  <2>1. clock \in Nat
    BY DEF LimiterInv, LimiterTypeOK, Times
  <2> QED
    BY <1>1, <2>1 DEF Windows, Fits
<1>7. \A e, f \in log'[k] :
         /\ e.windowStart = f.windowStart /\ e.slot = f.slot => e = f
         /\ \/ e.windowStart = f.windowStart
            \/ e.windowStart + Window <= f.windowStart
            \/ f.windowStart + Window <= e.windowStart
  <2>1. \A e \in log'[k] : e.windowStart \in Nat /\ e.slot \in Nat
    BY <1>1, <1>2 DEF Passed
  <2>2. \A e \in log[k] : /\ ~(e.windowStart = d.windowStart /\ e.slot = d.slot)
                          /\ \/ e.windowStart = d.windowStart
                             \/ e.windowStart + Window <= d.windowStart
    BY <1>1, <1>3, <2>1 DEF Fits
  <2>3. \A e, f \in log[k] :
           /\ e.windowStart = f.windowStart /\ e.slot = f.slot => e = f
           /\ \/ e.windowStart = f.windowStart
              \/ e.windowStart + Window <= f.windowStart
              \/ f.windowStart + Window <= e.windowStart
    BY <1>1 DEF Windows
  <2> QED
    BY <1>1, <2>2, <2>3
<1>8. \A q \in Keys : q # k => log'[q] = log[q]
  BY <1>1
<1>9. ASSUME NEW q \in Keys PROVE Windows(q)'
  <2>1. CASE q = k
    BY <1>5, <1>6, <1>7, <2>1 DEF Windows
  <2>2. CASE q # k
    BY <1>8, <2>2 DEF Windows, LimiterInv
  <2> QED
    BY <2>1, <2>2
<1> QED
  BY <1>1, <1>2, <1>4, <1>9

\* A step that lets a call through, given the entry it leaves behind.
LEMMA PassedStep ==
    ASSUME LimiterInv, NEW c \in Callers, call[c] # NoCall,
           NEW k \in Keys, k = call[c].key,
           NEW entry \in Entry, entry.count > 0, entry.count <= Limit[k],
           entry.windowStart <= clock,
           Fits(k, [windowStart |-> entry.windowStart, slot |-> entry.count, at |-> clock]),
           \A i \in 1 .. entry.count - 1 :
               \E d \in log[k] : d.windowStart = entry.windowStart /\ d.slot = i,
           entries' = [Sweep(call[c].now) EXCEPT ![k] = entry],
           LetThrough(k, entry), Return(c), UNCHANGED clock
    PROVE  LimiterInv' /\ log' # log
<1> DEFINE d == [windowStart |-> entry.windowStart, slot |-> entry.count, at |-> clock]
<1>1. k \in Keys /\ Fits(k, d) /\ log' = [log EXCEPT ![k] = @ \cup {d}]
  BY DEF LetThrough
<1>d. d.windowStart = entry.windowStart /\ d.slot = entry.count
  OBVIOUS
<1> HIDE DEF d
<1>2. /\ log' \in [Keys -> SUBSET Passed] /\ (\A q \in Keys : Windows(q)') /\ log' # log
  BY <1>1, FitsWindows
<1>3. /\ Sweep(call[c].now) \in [Keys -> Entry]
      /\ \A q \in Keys : Counted(q, Sweep(call[c].now)[q])
  BY SweepCounted
<1>4. entries' \in [Keys -> Entry] /\ entries'[k] = entry
      /\ \A q \in Keys : q # k => entries'[q] = Sweep(call[c].now)[q]
  BY <1>1, <1>3
<1>5. log'[k] = log[k] \cup {d} /\ \A q \in Keys : q # k => log'[q] = log[q]
  BY <1>1 DEF LimiterInv, LimiterTypeOK
<1>6. Counted(k, entries[k])'
  <2>0. entry.count \in Nat /\ entry.windowStart \in Nat
    BY DEF Entry
  <2>1. \A e \in log'[k] : \/ e.windowStart = entry.windowStart /\ e.slot <= entry.count
                           \/ e.windowStart + Window <= entry.windowStart
    <3>1. \A e \in log[k] : e.slot \in Nat
      BY <1>1 DEF LimiterInv, LimiterTypeOK, Passed
    <3> QED
      BY <1>1, <1>5, <1>d, <2>0, <3>1 DEF Fits
  <2>2. \A i \in 1 .. entry.count :
           \E e \in log'[k] : e.windowStart = entry.windowStart /\ e.slot = i
    <3> SUFFICES ASSUME NEW i \in 1 .. entry.count
                 PROVE  \E e \in log'[k] : e.windowStart = entry.windowStart /\ e.slot = i
      OBVIOUS
    <3>1. CASE i = entry.count
      BY <1>5, <1>d, <3>1
    <3>2. CASE i # entry.count
      <4>1. i \in 1 .. entry.count - 1
        BY <2>0, <3>2
      <4> QED
        BY <1>5, <4>1
    <3> QED
      BY <3>1, <3>2
  <2> QED
    BY <1>4, <2>0, <2>1, <2>2 DEF Counted
<1>7. \A q \in Keys : Counted(q, entries[q])'
  BY <1>3, <1>4, <1>5, <1>6 DEF Counted
<1>8. call' \in [Callers -> Pending] /\ Timely'
  BY DEF LimiterInv, LimiterTypeOK, Timely, Return, NoCall, Pending
<1> QED
  BY <1>2, <1>4, <1>7, <1>8 DEF LimiterInv, LimiterTypeOK

\* Every step preserves the invariant, and a step that ends a call without
\* letting it through denies it.
LEMMA LimiterStep ==
    ASSUME LimiterInv, [Next]_limiterVars
    PROVE  /\ LimiterInv'
           /\ \A c \in Callers : call[c] # NoCall /\ call'[c] = NoCall /\ log' = log => Deny(c)
<1>0. /\ LimiterTypeOK /\ Timely /\ clock \in Nat
      /\ Window \in Nat /\ Window > 0 /\ MaxDelay \in Nat /\ Limit \in [Keys -> Nat \ {0}]
  BY RateLimiterAssumption DEF LimiterInv, LimiterTypeOK, Times
<1>1. CASE UNCHANGED limiterVars
  BY <1>1 DEF limiterVars, LimiterInv, LimiterTypeOK, Counted, Windows, Timely
<1>2. ASSUME NEW c \in Callers, NEW k \in Keys, Request(c, k)
      PROVE  LimiterInv' /\ \A b \in Callers : call[b] # NoCall => call'[b] = call[b]
  <2>1. call' \in [Callers -> Pending] /\ Timely'
    BY <1>0, <1>2 DEF Request, LimiterTypeOK, Timely, Pending
  <2> QED
    BY <1>0, <1>2, <2>1 DEF Request, LimiterInv, LimiterTypeOK, Counted, Windows
<1>3. CASE Tick
  <2>1. clock' \in Times /\ clock' = clock + 1
    BY <1>0, <1>3, RateLimiterAssumption DEF Tick, LimiterTypeOK, Times
  <2>2. Timely'
    BY <1>0, <1>3, <2>1 DEF Tick, Timely, LimiterTypeOK, Pending
  <2>3. ASSUME NEW k \in Keys PROVE Counted(k, entries[k])' /\ Windows(k)'
    <3>1. Counted(k, entries[k]) /\ Windows(k) /\ UNCHANGED <<entries, log>>
      BY <1>3 DEF Tick, LimiterInv
    <3>2. /\ entries[k].windowStart \in Nat
          /\ \A d \in log[k] : d.windowStart \in Nat /\ d.at \in Nat
      BY <1>0 DEF LimiterTypeOK, Entry, Passed
    <3>3. Counted(k, entries[k])'
      BY <1>0, <2>1, <3>1, <3>2 DEF Counted
    <3> QED
      BY <1>0, <2>1, <3>1, <3>2, <3>3 DEF Windows
  <2> QED
    BY <1>0, <1>3, <2>1, <2>2, <2>3 DEF Tick, LimiterInv, LimiterTypeOK
<1>4. ASSUME NEW c \in Callers, Open(c) PROVE LimiterInv' /\ log' # log
  <2> DEFINE k == call[c].key
  <2> DEFINE now == call[c].now
  <2> DEFINE entry == [count |-> 1, windowStart |-> now]
  <2>1. /\ call[c] # NoCall /\ k \in Keys /\ now \in Nat /\ now <= clock /\ clock <= now + MaxDelay
        /\ Expired(Sweep(now)[k], now)
        /\ entries' = [Sweep(now) EXCEPT ![k] = entry]
        /\ LetThrough(k, entry) /\ Return(c) /\ UNCHANGED clock
    BY <1>0, <1>4 DEF Open, Timely, LimiterTypeOK, Pending
  <2>2. Counted(k, Sweep(now)[k]) /\ Sweep(now)[k] \in Entry
    BY <2>1, SweepCounted
  <2>3. \A e \in log[k] : e.windowStart \in Nat
    BY <1>0, <2>1 DEF LimiterTypeOK, Passed
  <2>4. \A e \in log[k] : e.windowStart + Window <= now
    <3>1. CASE Sweep(now)[k].count = 0
      BY <1>0, <2>1, <2>2, <2>3, <3>1 DEF Counted
    <3>2. CASE Sweep(now)[k].count # 0
      BY <1>0, <2>1, <2>2, <2>3, <3>2 DEF Counted, Expired, Entry
    <3> QED
      BY <3>1, <3>2
  <2>5. entry \in Entry /\ entry.count = 1 /\ entry.windowStart = now
    BY <2>1 DEF Entry
  <2>6. Limit[k] \in Nat /\ 1 <= Limit[k]
    BY <1>0, <2>1
  <2>7. Fits(k, [windowStart |-> entry.windowStart, slot |-> entry.count, at |-> clock])
    BY <1>0, <2>1, <2>4, <2>6 DEF Fits, Passed
  <2>8. \A i \in 1 .. entry.count - 1 :
           \E e \in log[k] : e.windowStart = entry.windowStart /\ e.slot = i
    BY <2>5
  <2> HIDE DEF entry
  <2> QED
    BY <2>1, <2>5, <2>6, <2>7, <2>8, PassedStep
<1>5. ASSUME NEW c \in Callers, Count(c) PROVE LimiterInv' /\ log' # log
  <2> DEFINE k == call[c].key
  <2> DEFINE now == call[c].now
  <2> DEFINE old == Sweep(now)[k]
  <2> DEFINE entry == [old EXCEPT !.count = @ + 1]
  <2>1. /\ call[c] # NoCall /\ k \in Keys /\ now \in Nat /\ now <= clock /\ clock <= now + MaxDelay
        /\ ~Expired(old, now) /\ old.count < Limit[k]
        /\ entries' = [Sweep(now) EXCEPT ![k] = entry]
        /\ LetThrough(k, entry) /\ Return(c) /\ UNCHANGED clock
    BY <1>0, <1>5 DEF Count, Timely, LimiterTypeOK, Pending
  <2>2. Counted(k, old) /\ old \in Entry
    BY <2>1, SweepCounted
  <2>3. \A e \in log[k] : e.windowStart \in Nat /\ e.slot \in Nat
    BY <1>0, <2>1 DEF LimiterTypeOK, Passed
  <2>4. old.count \in Nat /\ old.count > 0 /\ old.windowStart \in Nat
        /\ now < old.windowStart + Window
    BY <1>0, <2>1, <2>2 DEF Expired, Entry
  <2> HIDE DEF old
  <2>5. entry \in Entry /\ entry.count = old.count + 1 /\ entry.windowStart = old.windowStart
    BY <2>2, <2>4 DEF Entry
  <2>6. Limit[k] \in Nat
    BY <1>0, <2>1
  <2>7. Fits(k, [windowStart |-> entry.windowStart, slot |-> entry.count, at |-> clock])
    <3> DEFINE d == [windowStart |-> entry.windowStart, slot |-> entry.count, at |-> clock]
    <3>1. d.windowStart = old.windowStart /\ d.slot = old.count + 1 /\ d.at = clock
      BY <2>5
    <3>2. d \in Passed
      BY <1>0, <2>4, <2>5 DEF Passed
    <3>3. \A e \in log[k] : \/ e.windowStart = d.windowStart /\ e.slot < d.slot
                            \/ e.windowStart + Window <= d.windowStart
      BY <2>2, <2>3, <2>4, <3>1 DEF Counted
    <3>4. d.slot \in 1 .. Limit[k] /\ d.windowStart <= d.at /\ d.at < d.windowStart + Window + MaxDelay
      BY <1>0, <2>1, <2>2, <2>4, <2>6, <3>1 DEF Counted
    <3> HIDE DEF d
    <3>5. Fits(k, d)
      BY <3>1, <3>2, <3>3, <3>4 DEF Fits
    <3> QED
      BY <3>5 DEF d
  <2>8. \A i \in 1 .. entry.count - 1 :
           \E e \in log[k] : e.windowStart = entry.windowStart /\ e.slot = i
    BY <2>2, <2>4, <2>5 DEF Counted
  <2>9. entry.count > 0 /\ entry.count <= Limit[k] /\ entry.windowStart <= clock
    BY <1>0, <2>1, <2>2, <2>4, <2>5, <2>6 DEF Counted
  <2> HIDE DEF entry
  <2> QED
    BY <2>1, <2>5, <2>7, <2>8, <2>9, PassedStep
<1>6. ASSUME NEW c \in Callers, Deny(c)
      PROVE  LimiterInv' /\ \A b \in Callers : b # c => call'[b] = call[b]
  <2>1. /\ call[c] # NoCall /\ entries' = Sweep(call[c].now) /\ Return(c)
        /\ UNCHANGED <<clock, log>>
    BY <1>6 DEF Deny
  <2>2. /\ Sweep(call[c].now) \in [Keys -> Entry]
        /\ \A k \in Keys : Counted(k, Sweep(call[c].now)[k])
    BY <2>1, SweepCounted
  <2>3. \A k \in Keys : Counted(k, entries[k])' /\ Windows(k)'
    BY <2>1, <2>2 DEF Counted, Windows, LimiterInv
  <2>4. call' \in [Callers -> Pending] /\ Timely'
        /\ \A b \in Callers : b # c => call'[b] = call[b]
    BY <1>0, <2>1 DEF LimiterTypeOK, Timely, Return, NoCall, Pending
  <2> QED
    BY <1>0, <2>1, <2>2, <2>3, <2>4 DEF LimiterInv, LimiterTypeOK
<1> QED
  BY <1>1, <1>2, <1>3, <1>4, <1>5, <1>6 DEF Next, limiterVars, Tick

\* The invariant holds throughout.
THEOREM LimiterInvariant == Spec => []LimiterInv
<1>1. Init => LimiterInv
  <2> SUFFICES ASSUME Init PROVE LimiterInv
    OBVIOUS
  <2>1. LimiterTypeOK /\ Timely
    BY RateLimiterAssumption
       DEF Init, LimiterTypeOK, Timely, Times, Entry, NoEntry, Pending, NoCall
  <2>2. \A k \in Keys : Counted(k, entries[k]) /\ Windows(k)
    BY RateLimiterAssumption, FS_EmptySet DEF Init, Counted, Windows, Entry, NoEntry
  <2> QED
    BY <2>1, <2>2 DEF LimiterInv
<1>2. LimiterInv /\ [Next]_limiterVars => LimiterInv'
  BY LimiterStep
<1> QED
  BY <1>1, <1>2, PTL DEF Spec

-----------------------------------------------------------------------------
(* Counting. *)

\* Calls let through within Window - MaxDelay were counted in two windows.
LEMMA TwoWindows ==
    ASSUME LimiterInv, NEW k \in Keys, NEW t \in Nat, NEW x \in log[k], NEW y \in log[k],
           NEW z \in log[k],
           t <= x.at, x.at <= t + Window - MaxDelay,
           t <= y.at, y.at <= t + Window - MaxDelay,
           t <= z.at, z.at <= t + Window - MaxDelay
    PROVE  \/ x.windowStart = y.windowStart
           \/ z.windowStart \in {x.windowStart, y.windowStart}
<1>1. \A d \in {x, y, z} : d.windowStart \in Nat /\ d.at \in Nat
  BY DEF LimiterInv, LimiterTypeOK, Passed
<1>2. Window \in Nat /\ MaxDelay \in Nat
  BY RateLimiterAssumption
<1>3. \A d \in {x, y, z} : d.windowStart <= d.at /\ d.at < d.windowStart + Window + MaxDelay
  BY DEF LimiterInv, Windows
<1>4. \A d, e \in {x, y, z} : \/ d.windowStart = e.windowStart
                              \/ d.windowStart + Window <= e.windowStart
                              \/ e.windowStart + Window <= d.windowStart
  BY DEF LimiterInv, Windows
<1> QED
  BY <1>1, <1>2, <1>3, <1>4

\* Numbers of the second window follow those of the first.
LEMMA SecondHalf ==
    \A n \in Nat : \A p, q \in 1 .. n : n + p # q /\ (n + p = n + q => p = q)
OBVIOUS

\* No more than twice the limit is let through within Window - MaxDelay,
\* whatever the number of handlers, keys and sweeps (rateLimiter.allow).
THEOREM RateIsBounded == Spec => []RateBound
<1>1. LimiterInv => RateBound
  <2> SUFFICES ASSUME LimiterInv, NEW k \in Keys, NEW t \in Times
               PROVE  Cardinality({d \in log[k] : /\ t <= d.at
                                                  /\ d.at <= t + Window - MaxDelay})
                         <= 2 * Limit[k]
    BY DEF RateBound
  <2> DEFINE S == {d \in log[k] : t <= d.at /\ d.at <= t + Window - MaxDelay}
  <2> DEFINE L == Limit[k]
  <2>0. t \in Nat /\ L \in Nat
    BY RateLimiterAssumption DEF Times
  <2>1. \E a : \A x, y \in S : x.windowStart # a /\ y.windowStart # a
                                  => x.windowStart = y.windowStart
    <3>1. CASE S = {}
      BY <3>1
    <3>2. CASE S # {}
      <4>1. PICK x \in S : TRUE
        BY <3>2
      <4>2. \A y, z \in S : y.windowStart # x.windowStart /\ z.windowStart # x.windowStart
                               => y.windowStart = z.windowStart
        <5> SUFFICES ASSUME NEW y \in S, NEW z \in S,
                            y.windowStart # x.windowStart, z.windowStart # x.windowStart
                     PROVE  y.windowStart = z.windowStart
          OBVIOUS
        <5>1. x.windowStart = y.windowStart \/ z.windowStart \in {x.windowStart, y.windowStart}
          BY <2>0, TwoWindows
        <5> QED
          BY <5>1
      <4> QED
        BY <4>2
    <3> QED
      BY <3>1, <3>2
  <2>2. PICK a : \A x, y \in S : x.windowStart # a /\ y.windowStart # a
                                    => x.windowStart = y.windowStart
    BY <2>1
  <2> DEFINE f == [d \in S |-> IF d.windowStart = a THEN d.slot ELSE L + d.slot]
  <2>3. \A d \in S : d.slot \in 1 .. L
    BY DEF LimiterInv, Windows
  <2>4. f \in [S -> 1 .. 2 * L]
    BY <2>0, <2>3
  <2>5. \A x, y \in S : x.windowStart = y.windowStart /\ x.slot = y.slot => x = y
    BY DEF LimiterInv, Windows
  <2>6. \A x, y \in S : f[x] = f[y] => x = y
    <3> SUFFICES ASSUME NEW x \in S, NEW y \in S, f[x] = f[y] PROVE x = y
      OBVIOUS
    <3>1. /\ f[x] = IF x.windowStart = a THEN x.slot ELSE L + x.slot
          /\ f[y] = IF y.windowStart = a THEN y.slot ELSE L + y.slot
      OBVIOUS
    <3>2. x.slot \in 1 .. L /\ y.slot \in 1 .. L
      BY <2>3
    <3> HIDE DEF f, S, L
    <3>3. x.slot = y.slot /\ (x.windowStart = a <=> y.windowStart = a)
      <4>1. /\ L + x.slot # y.slot /\ L + y.slot # x.slot
            /\ L + x.slot = L + y.slot => x.slot = y.slot
        BY <2>0, <3>2, SecondHalf
      <4> QED
        BY <3>1, <4>1
    <3> QED
      BY <2>2, <2>5, <3>3
  <2> HIDE DEF f
  <2>7. f \in Injection(S, 1 .. 2 * L)
    BY <2>4, <2>6 DEF Injection, IsInjective
  <2>8. IsFiniteSet(1 .. 2 * L) /\ Cardinality(1 .. 2 * L) = 2 * L
    <3> HIDE DEF L
    <3>1. IsFiniteSet(1 .. 2 * L) /\ Cardinality(1 .. 2 * L) = IF 1 > 2 * L THEN 0 ELSE 2 * L - 1 + 1
      BY <2>0, FS_Interval
    <3> QED
      BY <2>0, <3>1
  <2>9. Cardinality(S) <= 2 * L
    BY <2>7, <2>8, FS_Injection
  <2> QED
    BY <2>9
<1> QED
  BY <1>1, LimiterInvariant, PTL

\* A handler is answered rate_limited only after the full limit was let
\* through less than a Window before: a sweep or a late caller locks nobody out.
THEOREM DenialsAreJustified == Spec => DenialJustified
<1>1. ASSUME LimiterInv, [Next]_limiterVars, NEW c \in Callers,
             call[c] # NoCall, call'[c] = NoCall, log' = log
      PROVE  Cardinality({d \in log[call[c].key] : d.at > call[c].now - Window})
                >= Limit[call[c].key]
  <2> DEFINE k == call[c].key
  <2> DEFINE now == call[c].now
  <2> DEFINE old == Sweep(now)[k]
  <2> DEFINE S == {d \in log[k] : d.at > now - Window}
  <2>1. Deny(c)
    BY <1>1, LimiterStep
  <2>2. k \in Keys /\ now \in Nat /\ Counted(k, old) /\ old \in Entry
        /\ ~Expired(old, now) /\ old.count >= Limit[k]
    BY <1>1, <2>1, SweepCounted DEF Deny, LimiterInv, Timely, LimiterTypeOK, Pending
  <2>3. /\ Limit[k] \in Nat \ {0} /\ Window \in Nat
        /\ old.count \in Nat /\ old.windowStart \in Nat
    BY <2>2, RateLimiterAssumption DEF Entry
  <2>4. \A d \in log[k] : d.windowStart \in Nat /\ d.at \in Nat /\ d.windowStart <= d.at
    BY <1>1, <2>2 DEF LimiterInv, LimiterTypeOK, Windows, Passed
  <2> HIDE DEF k, now, old
  <2>5. now < old.windowStart + Window
    BY <2>2, <2>3 DEF Expired
  <2>6. \A i \in 1 .. Limit[k] :
           \E d \in log[k] : d.windowStart = old.windowStart /\ d.slot = i
    BY <2>2, <2>3 DEF Counted
  <2>7. \A i \in 1 .. Limit[k] : \E d \in S : d.slot = i
    BY <2>2, <2>3, <2>4, <2>5, <2>6
  <2> DEFINE f == [i \in 1 .. Limit[k] |-> CHOOSE d \in S : d.slot = i]
  <2>8. \A i \in 1 .. Limit[k] : f[i] \in S /\ f[i].slot = i
    BY <2>7
  <2>9. IsFiniteSet(S)
    <3>1. IsFiniteSet(log[k])
      BY <1>1, <2>2 DEF LimiterInv, Windows
    <3>2. S \in SUBSET log[k]
      OBVIOUS
    <3> HIDE DEF S
    <3> QED
      BY <3>1, <3>2, FS_Subset
  <2>10. f \in [1 .. Limit[k] -> S]
    BY <2>8
  <2> HIDE DEF f
  <2>11. f \in Injection(1 .. Limit[k], S)
    BY <2>8, <2>10 DEF Injection, IsInjective
  <2>12. Cardinality(1 .. Limit[k]) <= Cardinality(S)
    BY <2>9, <2>11, FS_Injection
  <2>13. Cardinality(1 .. Limit[k]) = Limit[k]
    <3>0. 1 \in Int /\ Limit[k] \in Int
      BY <2>3
    <3>1. Cardinality(1 .. Limit[k]) = IF 1 > Limit[k] THEN 0 ELSE Limit[k] - 1 + 1
      BY <3>0, FS_Interval
    <3> QED
      BY <2>3, <3>1
  <2>14. Cardinality(S) \in Nat
    BY <2>9, FS_CardinalityType
  <2> QED
    BY <2>3, <2>12, <2>13, <2>14 DEF k, now
<1>2. LimiterInv /\ [Next]_limiterVars =>
         [\A c \in Callers :
             call[c] # NoCall /\ call'[c] = NoCall /\ log' = log =>
                 Cardinality({d \in log[call[c].key] : d.at > call[c].now - Window})
                     >= Limit[call[c].key]]_limiterVars
  BY <1>1
<1> QED
  BY <1>2, LimiterInvariant, PTL DEF Spec, DenialJustified
=============================================================================
