------------------------- MODULE SiteDatabaseProofs -------------------------
(***************************************************************************)
(* Proofs about the SQLite file of the site, for any number of requests,   *)
(* processes, feeds and old releases.                                      *)
(*                                                                         *)
(* First Downloads by itself, in the environment DownloadsSpec assumes;    *)
(* then that the whole site behaves like that environment, so that what    *)
(* Downloads promises holds of the site; then the feeds, against the       *)
(* commits of everybody else.                                              *)
(***************************************************************************)
EXTENDS SiteDatabase, FiniteSetTheorems, TLAPS

-----------------------------------------------------------------------------
(* Downloads *)

\* What a request knows and has written at each of its statements.
RequestAt(w) ==
    /\ pc[w] \in {"begin", "insert", "count", "commit"} => key[w] \in Keys
    /\ pc[w] \in {"idle", "wait", "query"} => key[w] = None
    /\ draft[w].event <=> pc[w] \in {"count", "commit"}
    /\ draft[w].count <=> pc[w] = "commit"

\* Requests whose event is still to come, and those that are to be answered 202.
Coming(k) == {w \in Workers : key[w] = k /\ pc[w] # "answer"}
Due(k) == {w \in Workers : key[w] = k /\ pc[w] = "answer"}

\* Every event has its count, no answer comes without an event, and no event
\* goes beyond the bound.
Tally ==
    /\ events \in [Keys -> Nat] /\ total = events /\ accepted \in [Keys -> Nat]
    /\ \A k \in Keys :
          /\ accepted[k] + Cardinality(Due(k)) <= events[k]
          /\ events[k] + Cardinality(Coming(k)) <= MaxEvents

RequestTypes ==
    /\ conn \in Workers \cup {None}
    /\ writer \in Workers \cup Procs \cup {None}
    /\ pc \in [Workers -> Labels]
    /\ key \in [Workers -> Keys \cup {None}]
    /\ draft \in [Workers -> [event: BOOLEAN, count: BOOLEAN]]

DownloadsInv ==
    /\ RequestTypes
    /\ \A w \in Workers : RequestAt(w)
    /\ Tally

\* The requests counted are finitely many.
LEMMA RequestsFinite ==
    ASSUME NEW S \in SUBSET Workers
    PROVE  IsFiniteSet(S) /\ Cardinality(S) \in Nat
BY DownloadsAssumption, FS_Subset, FS_CardinalityType

\* The tables fit the types the runs check.
LEMMA InvGivesTypes ==
    ASSUME DownloadsInv
    PROVE  DownloadsTypeOK
<1>1. ASSUME NEW k \in Keys
      PROVE  events[k] \in 0 .. MaxEvents /\ accepted[k] \in 0 .. MaxEvents
  <2>1. Cardinality(Due(k)) \in Nat /\ Cardinality(Coming(k)) \in Nat
    BY RequestsFinite DEF Due, Coming
  <2> QED
    BY <2>1, DownloadsAssumption DEF DownloadsInv, Tally
<1> QED
  BY <1>1 DEF DownloadsInv, Tally, RequestTypes, DownloadsTypeOK, Counts

LEMMA DownloadsInitInv ==
    ASSUME DownloadsInit
    PROVE  DownloadsInv
<1>1. RequestTypes /\ \A w \in Workers : RequestAt(w)
  BY DEF DownloadsInit, RequestTypes, RequestAt, Labels, NoDraft
<1>2. \A k \in Keys : Due(k) = {} /\ Coming(k) = {}
  BY DownloadsAssumption DEF DownloadsInit, Due, Coming
<1>3. Cardinality({}) = 0
  BY FS_EmptySet
<1>4. Tally
  BY <1>2, <1>3, DownloadsAssumption DEF DownloadsInit, Tally, Zero
<1> QED
  BY <1>1, <1>4 DEF DownloadsInv

\* A step that changes no table and only makes the requests that are counted
\* fewer keeps the tally.
LEMMA TallyKept ==
    ASSUME Tally, UNCHANGED <<db, accepted>>,
           \A k \in Keys : Due(k)' \subseteq Due(k) /\ Coming(k)' \subseteq Coming(k)
    PROVE  Tally'
<1>1. ASSUME NEW k \in Keys
      PROVE  /\ Cardinality(Due(k)') <= Cardinality(Due(k)) /\ Cardinality(Due(k)') \in Nat
             /\ Cardinality(Coming(k)') <= Cardinality(Coming(k))
             /\ Cardinality(Coming(k)') \in Nat
             /\ Cardinality(Due(k)) \in Nat /\ Cardinality(Coming(k)) \in Nat
  <2>1. Due(k) \in SUBSET Workers /\ Coming(k) \in SUBSET Workers
    BY DEF Due, Coming
  <2>2. IsFiniteSet(Due(k)) /\ IsFiniteSet(Coming(k))
    BY <2>1, RequestsFinite
  <2> QED
    BY <1>1, <2>1, <2>2, RequestsFinite, FS_Subset
<1> QED
  BY <1>1, DownloadsAssumption DEF Tally, db

\* A step that leaves the requests as they are, or ends some of them.
LEMMA OthersInv ==
    ASSUME DownloadsInv, OtherLocks \/ OtherUnlocks \/ Crash
    PROVE  DownloadsInv'
<1>1. CASE OtherLocks \/ OtherUnlocks
  <2>1. RequestTypes' /\ \A w \in Workers : RequestAt(w)'
    BY <1>1 DEF DownloadsInv, RequestTypes, RequestAt, OtherLocks, OtherUnlocks
  <2>2. \A k \in Keys : Due(k)' \subseteq Due(k) /\ Coming(k)' \subseteq Coming(k)
    BY <1>1 DEF Due, Coming, OtherLocks, OtherUnlocks
  <2>3. Tally'
    BY <1>1, <2>2, TallyKept DEF DownloadsInv, OtherLocks, OtherUnlocks
  <2> QED
    BY <2>1, <2>3 DEF DownloadsInv
<1>2. CASE Crash
  <2>1. RequestTypes' /\ \A w \in Workers : RequestAt(w)'
    BY <1>2 DEF DownloadsInv, RequestTypes, RequestAt, Crash, DropRequests, NoDraft, Labels
  <2>2. \A k \in Keys : Due(k)' \subseteq Due(k) /\ Coming(k)' \subseteq Coming(k)
    BY <1>2, DownloadsAssumption DEF Due, Coming, Crash, DropRequests
  <2>3. Tally'
    BY <1>2, <2>2, TallyKept DEF DownloadsInv, Crash
  <2> QED
    BY <2>1, <2>3 DEF DownloadsInv
<1> QED
  BY <1>1, <1>2

\* The steps of a request that count nothing.
LEMMA QuietStepInv ==
    ASSUME DownloadsInv, NEW w \in Workers,
           \/ BeginTx(w) \/ Insert(w) \/ Count(w) \/ Fail(w)
           \/ Stats(w) \/ Query(w) \/ Rows(w)
    PROVE  DownloadsInv'
<1>1. RequestTypes'
  <2>1. CASE BeginTx(w) \/ Stats(w) \/ Query(w)
    BY <2>1 DEF DownloadsInv, RequestTypes, BeginTx, Stats, Query, Goto, Labels
  <2>2. CASE Insert(w)
    <3>1. draft' \in [Workers -> [event: BOOLEAN, count: BOOLEAN]]
      BY <2>2 DEF DownloadsInv, RequestTypes, Insert
    <3> QED
      BY <2>2, <3>1 DEF DownloadsInv, RequestTypes, Insert, Goto, Labels
  <2>3. CASE Count(w)
    <3>1. draft' \in [Workers -> [event: BOOLEAN, count: BOOLEAN]]
      BY <2>3 DEF DownloadsInv, RequestTypes, Count
    <3> QED
      BY <2>3, <3>1 DEF DownloadsInv, RequestTypes, Count, Goto, Labels
  <2>4. CASE Fail(w)
    BY <2>4 DEF DownloadsInv, RequestTypes, Fail, Release, Done, Goto, Labels, NoDraft
  <2>5. CASE Rows(w)
    BY <2>5 DEF DownloadsInv, RequestTypes, Rows, Release, Goto, Labels, NoDraft
  <2> QED
    BY <2>1, <2>2, <2>3, <2>4, <2>5
<1>2. \A v \in Workers : RequestAt(v)'
  <2>1. CASE BeginTx(w) \/ Stats(w) \/ Query(w)
    BY <2>1 DEF DownloadsInv, RequestTypes, RequestAt, BeginTx, Stats, Query, Goto
  <2>2. CASE Insert(w) \/ Count(w)
    BY <2>2 DEF DownloadsInv, RequestTypes, RequestAt, Insert, Count, Goto
  <2>3. CASE Fail(w) \/ Rows(w)
    BY <2>3 DEF DownloadsInv, RequestTypes, RequestAt, Fail, Rows, Release, Done, Goto, NoDraft
  <2> QED
    BY <2>1, <2>2, <2>3
<1>3. \A k \in Keys : Due(k)' \subseteq Due(k) /\ Coming(k)' \subseteq Coming(k)
  BY DownloadsAssumption
     DEF DownloadsInv, RequestTypes, RequestAt, Due, Coming, BeginTx, Insert, Count, Fail, Stats,
         Query, Rows, Release, Done, Goto
<1>4. UNCHANGED <<db, accepted>>
  BY DEF BeginTx, Insert, Count, Fail, Stats, Query, Rows
<1> QED
  BY <1>1, <1>2, <1>3, <1>4, TallyKept DEF DownloadsInv

\* A download is announced while there is room for it.
LEMMA EventInv ==
    ASSUME DownloadsInv, NEW w \in Workers, NEW k \in Requested, Event(w, k)
    PROVE  DownloadsInv'
<1>1. k \in Keys /\ pc[w] = "idle" /\ key[w] = None
  BY DEF Event, Allowed, DownloadsInv, RequestAt
<1>2. RequestTypes' /\ \A v \in Workers : RequestAt(v)'
  BY <1>1 DEF DownloadsInv, RequestTypes, RequestAt, Event, Goto, Labels
<1>3. \A i \in Keys : Due(i)' = Due(i)
  BY <1>1, DownloadsAssumption DEF DownloadsInv, RequestTypes, Due, Event, Goto
<1>4. \A i \in Keys \ {k} : Coming(i)' = Coming(i)
  BY <1>1, DownloadsAssumption DEF DownloadsInv, RequestTypes, Coming, Event, Goto
<1>5. Coming(k)' = Coming(k) \cup {w} /\ w \notin Coming(k)
  BY <1>1, DownloadsAssumption DEF DownloadsInv, RequestTypes, Coming, Event, Goto
<1>6. Cardinality(Coming(k)') = Cardinality(Coming(k)) + 1 /\ Cardinality(Coming(k)) \in Nat
  BY <1>5, RequestsFinite, FS_AddElement DEF Coming
<1>7. events[k] + Cardinality(Coming(k)) < MaxEvents
  <2> DEFINE Named == {v \in Workers : key[v] = k}
  <2>1. Named \in SUBSET Workers /\ Coming(k) \in SUBSET Named
    BY DEF Coming
  <2>2. Cardinality(Coming(k)) <= Cardinality(Named) /\ Cardinality(Named) \in Nat
    BY <2>1, RequestsFinite, FS_Subset
  <2>3. events[k] + Cardinality(Named) < MaxEvents /\ events[k] \in Nat
    BY <1>1 DEF Event, DownloadsInv, Tally
  <2> QED
    BY <1>6, <2>2, <2>3, DownloadsAssumption
<1>8. Tally'
  BY <1>3, <1>4, <1>6, <1>7, DownloadsAssumption DEF DownloadsInv, Tally, Event, db
<1> QED
  BY <1>2, <1>8 DEF DownloadsInv

\* The transaction counts the event and its request is to be answered.
LEMMA CommitInv ==
    ASSUME DownloadsInv, NEW w \in Workers, Commit(w)
    PROVE  DownloadsInv'
<1>1. PICK k \in Keys : key[w] = k
  BY DEF Commit, DownloadsInv, RequestAt
<1>2. RequestTypes' /\ \A v \in Workers : RequestAt(v)'
  BY DEF DownloadsInv, RequestTypes, RequestAt, Commit, Release, Goto, Labels, NoDraft
<1>3. /\ events' = [events EXCEPT ![k] = @ + 1] /\ total' = [total EXCEPT ![k] = @ + 1]
      /\ accepted' = accepted /\ key' = key /\ pc' = [pc EXCEPT ![w] = "answer"]
      /\ pc[w] = "commit"
  BY <1>1 DEF DownloadsInv, RequestAt, Commit, Applied, Goto
<1>4. \A i \in Keys \ {k} : Due(i)' = Due(i) /\ Coming(i)' = Coming(i)
  BY <1>1, <1>3 DEF DownloadsInv, RequestTypes, Due, Coming
<1>5. /\ Due(k)' = Due(k) \cup {w} /\ w \notin Due(k)
      /\ Coming(k)' = Coming(k) \ {w} /\ w \in Coming(k)
  BY <1>1, <1>3 DEF DownloadsInv, RequestTypes, Due, Coming
<1>6. Cardinality(Due(k)') = Cardinality(Due(k)) + 1 /\ Cardinality(Due(k)) \in Nat
  BY <1>5, RequestsFinite, FS_AddElement DEF Due
<1>7. Cardinality(Coming(k)') = Cardinality(Coming(k)) - 1 /\ Cardinality(Coming(k)) \in Nat
  BY <1>5, RequestsFinite, FS_RemoveElement DEF Coming
<1>8. Tally'
  BY <1>3, <1>4, <1>6, <1>7, DownloadsAssumption DEF DownloadsInv, Tally
<1> QED
  BY <1>2, <1>8 DEF DownloadsInv

\* 202 for an event that was counted; the totals for others.
LEMMA AnswerInv ==
    ASSUME DownloadsInv, NEW w \in Workers, Answer(w)
    PROVE  DownloadsInv'
<1>1. RequestTypes' /\ \A v \in Workers : RequestAt(v)'
  BY DEF DownloadsInv, RequestTypes, RequestAt, Answer, Done, Goto, Labels
<1>2. CASE key[w] = None
  <2>1. \A k \in Keys : Due(k)' \subseteq Due(k) /\ Coming(k)' \subseteq Coming(k)
    BY <1>2, DownloadsAssumption DEF DownloadsInv, RequestTypes, Due, Coming, Answer, Done, Goto
  <2> QED
    BY <1>1, <1>2, <2>1, TallyKept DEF DownloadsInv, Answer
<1>3. ASSUME NEW k \in Keys, key[w] = k
      PROVE  DownloadsInv'
  <2>1. accepted' = [accepted EXCEPT ![k] = @ + 1] /\ UNCHANGED db
    BY <1>3, DownloadsAssumption DEF Answer
  <2>2. \A i \in Keys \ {k} : Due(i)' = Due(i)
    BY <1>3, DownloadsAssumption DEF DownloadsInv, RequestTypes, Due, Answer, Done, Goto
  <2>3. \A i \in Keys : Coming(i)' = Coming(i)
    BY <1>3, DownloadsAssumption DEF DownloadsInv, RequestTypes, Coming, Answer, Done, Goto
  <2>4. Due(k)' = Due(k) \ {w} /\ w \in Due(k)
    BY <1>3, DownloadsAssumption DEF DownloadsInv, RequestTypes, Due, Answer, Done, Goto
  <2>5. Cardinality(Due(k)') = Cardinality(Due(k)) - 1 /\ Cardinality(Due(k)) \in Nat
    BY <2>4, RequestsFinite, FS_RemoveElement DEF Due
  <2>6. Tally'
    BY <2>1, <2>2, <2>3, <2>5 DEF DownloadsInv, Tally, db
  <2> QED
    BY <1>1, <2>6 DEF DownloadsInv
<1> QED
  BY <1>2, <1>3 DEF DownloadsInv, RequestTypes

\* Whatever the environment DownloadsSpec allows does, requests keep their
\* accounts.
THEOREM DownloadsInvariant == DownloadsSpec => []DownloadsInv
<1>1. DownloadsInit => DownloadsInv
  BY DownloadsInitInv
<1>2. DownloadsInv /\ [DownloadsNext]_downloadVars => DownloadsInv'
  <2> SUFFICES ASSUME DownloadsInv, [DownloadsNext]_downloadVars
               PROVE  DownloadsInv'
    OBVIOUS
  <2>1. ASSUME NEW w \in Workers, Arrive(w) \/ Proceed(w)
        PROVE  DownloadsInv'
    BY <2>1, QuietStepInv, EventInv, CommitInv, AnswerInv DEF Arrive, Proceed, Advance
  <2>2. CASE OtherLocks \/ OtherUnlocks \/ Crash
    BY <2>2, OthersInv
  <2>3. CASE UNCHANGED downloadVars
    <3>1. RequestTypes' /\ \A w \in Workers : RequestAt(w)'
      BY <2>3 DEF DownloadsInv, RequestTypes, RequestAt, downloadVars
    <3>2. \A k \in Keys : Due(k)' \subseteq Due(k) /\ Coming(k)' \subseteq Coming(k)
      BY <2>3 DEF Due, Coming, downloadVars
    <3> QED
      BY <2>3, <3>1, <3>2, TallyKept DEF DownloadsInv, downloadVars
  <2> QED
    BY <2>1, <2>2, <2>3 DEF DownloadsNext
<1> QED
  BY <1>1, <1>2, PTL DEF DownloadsSpec

-----------------------------------------------------------------------------
(* The site is an environment as Downloads assumes it *)

WriterKnown == writer \in Workers \cup Procs \cup {None}

LEMMA SiteStep ==
    ASSUME WriterKnown, [Next]_siteVars
    PROVE  [DownloadsNext]_downloadVars /\ WriterKnown'
<1>1. ASSUME NEW w \in Workers, Request(w)
      PROVE  [DownloadsNext]_downloadVars /\ WriterKnown'
  <2>1. DownloadsNext
    BY <1>1 DEF Request, DownloadsNext
  <2>2. WriterKnown'
    BY <1>1 DEF WriterKnown, Request, Arrive, Proceed, Advance, Stats, Event, BeginTx, Query, Insert,
                Count, Commit, Rows, Answer, Fail, Release
  <2> QED
    BY <2>1, <2>2
<1>2. ASSUME NEW p \in Procs, Catalogue(p)
      PROVE  [DownloadsNext]_downloadVars /\ WriterKnown'
  <2>1. \/ writer' = writer
        \/ writer = None /\ writer' = p
        \/ writer = p /\ writer' = None
    BY <1>2 DEF Catalogue, Feeds!Step, Feeds!Start, Feeds!CreateTables, Feeds!AlreadyMigrated,
                Feeds!NotYetMigrated, Feeds!Migrate, Feeds!Save, Feeds!Compare, Feeds!Conflict,
                Feeds!Number, Feeds!Insert, Feeds!Fail, Feeds!Commit, Feeds!End, Feeds!db
  <2>2. UNCHANGED requestVars
    BY <1>2 DEF Catalogue
  <2>3. OtherLocks \/ OtherUnlocks \/ UNCHANGED downloadVars
    BY <2>1, <2>2 DEF requestVars, downloadVars, OtherLocks, OtherUnlocks
  <2> QED
    BY <2>1, <2>3 DEF WriterKnown, DownloadsNext
<1>3. ASSUME NEW p \in Procs, UpsertInstaller(p)
      PROVE  [DownloadsNext]_downloadVars /\ WriterKnown'
  BY <1>3 DEF UpsertInstaller, WriterKnown, downloadVars
<1>4. ASSUME NEW p \in Procs, ToolEnds(p)
      PROVE  [DownloadsNext]_downloadVars /\ WriterKnown'
  <2>1. OtherUnlocks \/ UNCHANGED downloadVars
    BY <1>4 DEF ToolEnds, requestVars, downloadVars, OtherUnlocks
  <2> QED
    BY <1>4, <2>1 DEF ToolEnds, WriterKnown, DownloadsNext
<1>5. CASE ServerDies
  <2>1. writer' \in IF writer \in Procs THEN {writer, None} ELSE {None}
    BY <1>5, SiteAssumption DEF ServerDies, WriterKnown
  <2>2. Crash
    BY <1>5, <2>1 DEF ServerDies, Crash
  <2> QED
    BY <1>5, <2>2 DEF ServerDies, WriterKnown, DownloadsNext
<1>6. CASE UNCHANGED siteVars
  BY <1>6 DEF siteVars, downloadVars, WriterKnown
<1> QED
  BY <1>1, <1>2, <1>3, <1>4, <1>5, <1>6 DEF Next

\* Catalogue handles, releasectl and the death of the server behave as Downloads
\* assumes of everybody else on the file: they take the write lock when it is
\* free, and never that of a download.
LEMMA SiteImplementsDownloads == Spec => DownloadsSpec
<1>1. Init => DownloadsInit /\ WriterKnown
  BY DEF Init, DownloadsInit, WriterKnown
<1>2. WriterKnown /\ [Next]_siteVars => [DownloadsNext]_downloadVars /\ WriterKnown'
  BY SiteStep
<1> QED
  BY <1>1, <1>2, PTL DEF Spec, DownloadsSpec

\* RecordDownloadEvent: the counter and the log of events agree, wherever a
\* transaction was cut off.
THEOREM TotalsAlwaysMatch == Spec => []TotalsMatchEvents
<1>1. DownloadsInv => TotalsMatchEvents
  BY DEF DownloadsInv, Tally, TotalsMatchEvents
<1> QED
  BY <1>1, SiteImplementsDownloads, DownloadsInvariant, PTL

\* downloadEvent: no event that was or will be answered 202 is lost.
THEOREM AcceptedAlwaysCounted == Spec => []AcceptedIsCounted
<1>1. DownloadsInv => AcceptedIsCounted
  BY DEF DownloadsInv, Tally, AcceptedIsCounted, Due
<1> QED
  BY <1>1, SiteImplementsDownloads, DownloadsInvariant, PTL

\* The tables and requests of Downloads keep their types, and the bound on
\* events is kept.
THEOREM DownloadsTypeCorrect == Spec => []DownloadsTypeOK
<1>1. DownloadsInv => DownloadsTypeOK
  BY InvGivesTypes
<1> QED
  BY <1>1, SiteImplementsDownloads, DownloadsInvariant, PTL

-----------------------------------------------------------------------------
(* The feeds in SQLite *)

\* A feed has a newest revision; so MAX(REVISION_) is one of its numbers.
NewestExists(n) ==
    revisions[n] # {} => \E i \in revisions[n] : \A j \in revisions[n] : j <= i

\* What a process knows while nobody has committed since its snapshot: the
\* pointer is the one its editor has loaded, its number is new and the highest.
\* The write lock is held across steps by a process in EnsureSchema only, so a
\* save that writes has a current snapshot.
SnapshotAt(p) ==
    /\ stmt[p] \in {"read", "number", "insert"} => feed[p] \in Names
    /\ writer = p => stmt[p] \in {"marker", "copy"}
    /\ stmt[p] \in {"number", "insert"} /\ ~outdated[p] => pointer[feed[p]] = input[p]
    /\ stmt[p] = "insert" => next[p] \in Nat \ {0}
    /\ stmt[p] = "insert" /\ ~outdated[p] =>
          \A j \in revisions[feed[p]] : j < next[p]

FeedsInv ==
    /\ Feeds!LegacyTypeOK
    /\ LegacyComplete
    /\ \A n \in Names : NewestExists(n)
    /\ \A p \in Procs : SnapshotAt(p)

\* A step that leaves the tables, and transactions that have read, alone.
LEMMA SnapshotsKept ==
    ASSUME FeedsInv, UNCHANGED <<feedDb, stmt, feed, input, next, served>>,
           outdated' \in [Procs -> BOOLEAN],
           \A p \in Procs : outdated[p] /\ stmt[p] \in {"number", "insert"} => outdated'[p],
           \A p \in Procs : writer' = p => writer = p
    PROVE  FeedsInv'
<1>1. Feeds!LegacyTypeOK'
  BY DEF FeedsInv, Feeds!LegacyTypeOK, feedDb
<1>2. LegacyComplete' /\ \A n \in Names : NewestExists(n)'
  BY DEF FeedsInv, LegacyComplete, Feeds!LegacyComplete, Feeds!TakenOverUnpointed, NewestExists,
         feedDb
<1>3. \A p \in Procs : SnapshotAt(p)'
  BY DEF FeedsInv, SnapshotAt, feedDb
<1> QED
  BY <1>1, <1>2, <1>3 DEF FeedsInv

\* A step of p that changes no table and no other process.
LEMMA SnapshotStep ==
    ASSUME FeedsInv, NEW p \in Procs,
           UNCHANGED feedDb,
           \A q \in Procs \ {p} :
              /\ stmt'[q] = stmt[q] /\ outdated'[q] = outdated[q] /\ feed'[q] = feed[q]
              /\ input'[q] = input[q] /\ next'[q] = next[q]
              /\ writer' = q => writer = q,
           Feeds!LegacyTypeOK',
           SnapshotAt(p)'
    PROVE  FeedsInv'
<1>1. LegacyComplete' /\ \A n \in Names : NewestExists(n)'
  BY DEF FeedsInv, LegacyComplete, Feeds!LegacyComplete, Feeds!TakenOverUnpointed, NewestExists,
         feedDb
<1>2. \A q \in Procs : SnapshotAt(q)'
  BY DEF FeedsInv, SnapshotAt, feedDb
<1> QED
  BY <1>1, <1>2 DEF FeedsInv

\* The highest number of a feed is what CHOOSE says it is.
LEMMA HighestIsHighest ==
    ASSUME NEW S, \E i \in S : \A j \in S : j <= i
    PROVE  Feeds!Highest(S) \in S /\ \A j \in S : j <= Feeds!Highest(S)
BY DEF Feeds!Highest

\* Starting, comparing and failing.
LEMMA CatalogueReadInv ==
    ASSUME FeedsInv, NEW p \in Procs,
           \/ Feeds!Start(p) \/ Feeds!CreateTables(p) \/ Feeds!AlreadyMigrated(p)
           \/ Feeds!NotYetMigrated(p) \/ Feeds!Compare(p) \/ Feeds!Conflict(p) \/ Feeds!Fail(p)
    PROVE  FeedsInv'
<1>1. UNCHANGED feedDb
  BY DEF feedDb, Feeds!db, Feeds!Start, Feeds!CreateTables, Feeds!AlreadyMigrated,
         Feeds!NotYetMigrated, Feeds!Compare, Feeds!Conflict, Feeds!Fail
<1>2. Feeds!LegacyTypeOK'
  <2>1. CASE \/ Feeds!Start(p) \/ Feeds!CreateTables(p) \/ Feeds!NotYetMigrated(p)
             \/ Feeds!Compare(p)
    BY <1>1, <2>1 DEF FeedsInv, Feeds!LegacyTypeOK, feedDb, Feeds!Start, Feeds!CreateTables,
                      Feeds!NotYetMigrated, Feeds!Compare, Feeds!Goto, Feeds!Labels
  <2>2. CASE Feeds!AlreadyMigrated(p)
    BY <1>1, <2>2 DEF FeedsInv, Feeds!LegacyTypeOK, feedDb, Feeds!AlreadyMigrated, Feeds!End,
                      Feeds!Forget, Feeds!Goto, Feeds!Labels
  <2>3. CASE Feeds!Conflict(p)
    BY <1>1, <2>3 DEF FeedsInv, Feeds!LegacyTypeOK, feedDb, Feeds!Conflict, Feeds!End,
                      Feeds!Forget, Feeds!Goto, Feeds!Labels
  <2>4. CASE Feeds!Fail(p)
    BY <1>1, <2>4 DEF FeedsInv, Feeds!LegacyTypeOK, feedDb, Feeds!Fail, Feeds!End,
                      Feeds!Forget, Feeds!Goto, Feeds!Labels
  <2> QED
    BY <2>1, <2>2, <2>3, <2>4
<1>3. \A q \in Procs \ {p} :
          /\ stmt'[q] = stmt[q] /\ outdated'[q] = outdated[q] /\ feed'[q] = feed[q]
          /\ input'[q] = input[q] /\ next'[q] = next[q]
          /\ writer' = q => writer = q
  BY DownloadsAssumption
     DEF FeedsInv, Feeds!LegacyTypeOK, Feeds!Start, Feeds!CreateTables, Feeds!AlreadyMigrated,
         Feeds!NotYetMigrated, Feeds!Compare, Feeds!Conflict, Feeds!Fail, Feeds!End,
         Feeds!Forget, Feeds!Goto
<1>4. SnapshotAt(p)'
  <2>1. SnapshotAt(p) /\ None # p /\ Feeds!LegacyTypeOK
    BY DownloadsAssumption DEF FeedsInv
  <2>2. CASE Feeds!Start(p) \/ Feeds!CreateTables(p) \/ Feeds!NotYetMigrated(p)
    BY <2>1, <2>2 DEF SnapshotAt, Feeds!LegacyTypeOK, Feeds!Start, Feeds!CreateTables,
                      Feeds!NotYetMigrated, Feeds!Goto
  <2>3. CASE Feeds!AlreadyMigrated(p) \/ Feeds!Conflict(p) \/ Feeds!Fail(p)
    BY <2>1, <2>3 DEF SnapshotAt, Feeds!LegacyTypeOK, Feeds!AlreadyMigrated, Feeds!Conflict,
                      Feeds!Fail, Feeds!End, Feeds!Forget, Feeds!Goto
  <2>4. CASE Feeds!Compare(p)
    BY <1>1, <2>1, <2>4 DEF SnapshotAt, Feeds!LegacyTypeOK, Feeds!Compare, Feeds!Current,
                            Feeds!Goto, feedDb
  <2> QED
    BY <2>2, <2>3, <2>4
<1> QED
  BY <1>1, <1>2, <1>3, <1>4, SnapshotStep

\* A save is submitted, and gets its number.
LEMMA SaveInv ==
    ASSUME FeedsInv, NEW p \in Procs,
           \/ \E n \in Names : \E r \in {0} \cup revisions[n] : Feeds!Save(p, n, r)
           \/ Feeds!Number(p)
    PROVE  FeedsInv'
<1>1. UNCHANGED feedDb /\ UNCHANGED <<writer, outdated>>
  BY DEF feedDb, Feeds!db, Feeds!Save, Feeds!Number
<1>2. SnapshotAt(p) /\ Feeds!LegacyTypeOK
  BY DEF FeedsInv
<1>3. ASSUME NEW n \in Names, NEW r \in {0} \cup revisions[n], Feeds!Save(p, n, r)
      PROVE  FeedsInv'
  <2>1. r \in Nat
    BY <1>2 DEF Feeds!LegacyTypeOK
  <2>2. Feeds!LegacyTypeOK'
    BY <1>1, <1>2, <1>3, <2>1 DEF Feeds!LegacyTypeOK, Feeds!Save, Feeds!Goto, Feeds!Labels, feedDb
  <2>3. SnapshotAt(p)'
    BY <1>1, <1>2, <1>3 DEF Feeds!LegacyTypeOK, SnapshotAt, Feeds!Save, Feeds!Goto
  <2>4. \A q \in Procs \ {p} : /\ stmt'[q] = stmt[q] /\ feed'[q] = feed[q]
                               /\ input'[q] = input[q] /\ next'[q] = next[q]
    BY <1>2, <1>3 DEF Feeds!LegacyTypeOK, Feeds!Save, Feeds!Goto
  <2> QED
    BY <1>1, <2>2, <2>3, <2>4, SnapshotStep
<1>4. CASE Feeds!Number(p)
  <2>1. PICK n \in Names : feed[p] = n
    BY <1>2, <1>4 DEF SnapshotAt, Feeds!Number
  <2>2. revisions[n] \subseteq Nat \ {0} /\ NewestExists(n)
    BY <1>2 DEF FeedsInv, Feeds!LegacyTypeOK
  <2>3. Feeds!NextNumber(p) \in Nat \ {0} /\ \A j \in revisions[n] : j < Feeds!NextNumber(p)
    <3>1. CASE revisions[n] = {}
      BY <2>1, <3>1 DEF Feeds!NextNumber
    <3>2. CASE revisions[n] # {}
      <4>1. /\ Feeds!Highest(revisions[n]) \in revisions[n]
            /\ \A j \in revisions[n] : j <= Feeds!Highest(revisions[n])
        BY <2>2, <3>2, HighestIsHighest DEF NewestExists
      <4> QED
        BY <2>1, <2>2, <3>2, <4>1 DEF Feeds!NextNumber
    <3> QED
      BY <3>1, <3>2
  <2>4. /\ stmt' = [stmt EXCEPT ![p] = "insert"] /\ stmt[p] = "number"
        /\ next' = [next EXCEPT ![p] = Feeds!NextNumber(p)]
        /\ UNCHANGED <<feed, input, served>>
    BY <1>4 DEF Feeds!Number, Feeds!Goto
  <2>5. Feeds!LegacyTypeOK'
    BY <1>1, <1>2, <2>3, <2>4 DEF Feeds!LegacyTypeOK, Feeds!Labels, feedDb
  <2>6. SnapshotAt(p)'
    BY <1>1, <1>2, <2>1, <2>3, <2>4 DEF Feeds!LegacyTypeOK, SnapshotAt, feedDb
  <2>7. \A q \in Procs \ {p} : /\ stmt'[q] = stmt[q] /\ feed'[q] = feed[q]
                               /\ input'[q] = input[q] /\ next'[q] = next[q]
    BY <1>2, <2>4 DEF Feeds!LegacyTypeOK
  <2> QED
    BY <1>1, <2>5, <2>6, <2>7, SnapshotStep
<1> QED
  BY <1>3, <1>4

\* A commit that changes the tables outdates the snapshot of everybody else.
LEMMA CommitOutdates ==
    ASSUME FeedsInv, NEW p \in Procs, Feeds!Commit(p),
           Feeds!LegacyTypeOK',
           LegacyComplete', \A n \in Names : NewestExists(n)'
    PROVE  FeedsInv'
<1>1. ASSUME NEW q \in Procs
      PROVE  SnapshotAt(q)'
  <2>1. SnapshotAt(q) /\ Feeds!LegacyTypeOK /\ None # q /\ None # p
    BY DownloadsAssumption DEF FeedsInv
  <2>2. CASE q = p
    BY <2>1, <2>2 DEF SnapshotAt, Feeds!LegacyTypeOK, Feeds!Commit, Feeds!End, Feeds!Forget,
                      Feeds!Goto
  <2>3. CASE q # p
    <3>1. /\ stmt'[q] = stmt[q] /\ feed'[q] = feed[q] /\ next'[q] = next[q]
          /\ writer' = q => writer = q
      BY <2>1, <2>3 DEF Feeds!LegacyTypeOK, Feeds!Commit, Feeds!End, Feeds!Forget, Feeds!Goto
    <3>2. stmt[q] \in {"number", "insert"} => outdated'[q]
      BY <2>1, <2>3 DEF Feeds!Commit, Feeds!Outdated
    <3> QED
      BY <2>1, <3>1, <3>2 DEF SnapshotAt
  <2> QED
    BY <2>2, <2>3
<1> QED
  BY <1>1 DEF FeedsInv

LEMMA CommitTypes ==
    ASSUME Feeds!LegacyTypeOK, NEW p \in Procs, Feeds!Commit(p)
    PROVE  /\ stmt' \in [Procs -> Feeds!Labels] /\ outdated' \in [Procs -> BOOLEAN]
           /\ feed' \in [Procs -> Names \cup {None}]
           /\ input' \in [Procs -> Nat] /\ next' \in [Procs -> Nat]
<1>1. outdated' \in [Procs -> BOOLEAN]
  BY DEF Feeds!Commit, Feeds!Outdated
<1> QED
  BY <1>1 DEF Feeds!LegacyTypeOK, Feeds!Commit, Feeds!End, Feeds!Forget, Feeds!Goto, Feeds!Labels

\* The singleton is taken over with all its releases, or there is none.
LEMMA MigrateInv ==
    ASSUME FeedsInv, NEW p \in Procs, Feeds!Migrate(p)
    PROVE  FeedsInv'
<1>1. Feeds!LegacyTypeOK /\ LegacyComplete /\ \A n \in Names : NewestExists(n)
  BY DEF FeedsInv
<1>2. Feeds!Commit(p) /\ tables' = TRUE /\ migrated' = TRUE
      /\ served' = [served EXCEPT ![p] = TRUE]
  BY DEF Feeds!Migrate
<1>3. CASE OldTables
  <2>1. /\ revisions' = [revisions EXCEPT ![Singleton] = OldReleases]
        /\ \E c \in OldCurrents : pointer' = [pointer EXCEPT ![Singleton] = c]
    BY <1>3 DEF Feeds!Migrate, Feeds!WithSingleton
  <2>2. PICK c \in OldCurrents : pointer' = [pointer EXCEPT ![Singleton] = c]
    BY <2>1
  <2>3. /\ OldReleases \subseteq Nat \ {0} /\ c \in OldReleases \cup {0} /\ Singleton \in Names
        /\ OldReleases # {} => \E i \in OldReleases : \A j \in OldReleases : j <= i
    BY SiteAssumption
  <2>4. Feeds!LegacyTypeOK'
    BY <1>1, <1>2, <2>1, <2>2, <2>3, CommitTypes DEF Feeds!LegacyTypeOK
  <2>5. LegacyComplete'
    <3>1. revisions'[Singleton] = OldReleases /\ pointer'[Singleton] = c
      BY <1>1, <2>1, <2>2, <2>3 DEF Feeds!LegacyTypeOK
    <3>2. \A n \in Names \ {Singleton} : revisions'[n] = revisions[n] /\ pointer'[n] = pointer[n]
      BY <1>1, <2>1, <2>2 DEF Feeds!LegacyTypeOK
    <3>3. c = 0 => Feeds!TakenOverUnpointed'
      BY <1>2, <1>3, <2>2, <3>1 DEF Feeds!TakenOverUnpointed
    <3> QED
      BY <1>1, <2>3, <3>1, <3>2, <3>3 DEF LegacyComplete, Feeds!LegacyComplete
  <2>6. \A n \in Names : NewestExists(n)'
    BY <1>1, <2>1, <2>3 DEF Feeds!LegacyTypeOK, NewestExists
  <2> QED
    BY <1>2, <2>4, <2>5, <2>6, CommitOutdates
<1>4. CASE ~OldTables
  <2>1. UNCHANGED <<revisions, pointer>>
    BY <1>4 DEF Feeds!Migrate, Feeds!WithSingleton
  <2>2. Feeds!LegacyTypeOK'
    BY <1>1, <1>2, <2>1, CommitTypes DEF Feeds!LegacyTypeOK
  <2>3. LegacyComplete' /\ \A n \in Names : NewestExists(n)'
    BY <1>1, <1>4, <2>1 DEF LegacyComplete, Feeds!LegacyComplete, Feeds!TakenOverUnpointed,
                            NewestExists
  <2> QED
    BY <1>2, <2>2, <2>3, CommitOutdates
<1> QED
  BY <1>3, <1>4

\* What a save that writes knows: its snapshot is current.
LEMMA InsertKnows ==
    ASSUME FeedsInv, NEW p \in Procs, Feeds!Insert(p)
    PROVE  /\ feed[p] \in Names
           /\ pointer[feed[p]] = input[p]
           /\ next[p] \in Nat \ {0}
           /\ \A j \in revisions[feed[p]] : j < next[p]
<1>1. SnapshotAt(p)
  BY DEF FeedsInv
<1>2. stmt[p] = "insert" /\ ~outdated[p]
  BY <1>1 DEF SnapshotAt, Feeds!Insert, Feeds!MayWrite
<1> QED
  BY <1>1, <1>2 DEF SnapshotAt

\* A revision with the next number, and the pointer to it.
LEMMA InsertInv ==
    ASSUME FeedsInv, NEW p \in Procs, Feeds!Insert(p)
    PROVE  FeedsInv'
<1>1. Feeds!LegacyTypeOK /\ LegacyComplete /\ \A n \in Names : NewestExists(n)
  BY DEF FeedsInv
<1>2. PICK n \in Names : feed[p] = n
  BY InsertKnows
<1>3. PICK i \in Nat \ {0} : i = next[p] /\ \A j \in revisions[n] : j < i
  BY <1>2, InsertKnows
<1>4. /\ Feeds!Commit(p) /\ UNCHANGED <<tables, migrated, served>>
      /\ revisions' = [revisions EXCEPT ![n] = @ \cup {i}]
      /\ pointer' = [pointer EXCEPT ![n] = i]
  BY <1>2, <1>3 DEF Feeds!Insert
<1>5. Feeds!LegacyTypeOK'
  BY <1>1, <1>4, CommitTypes DEF Feeds!LegacyTypeOK
<1>6. LegacyComplete'
  <2>1. pointer'[n] \in revisions'[n] /\ revisions[n] \subseteq revisions'[n]
    BY <1>1, <1>4 DEF Feeds!LegacyTypeOK
  <2>2. \A k \in Names \ {n} : revisions'[k] = revisions[k] /\ pointer'[k] = pointer[k]
    BY <1>1, <1>4 DEF Feeds!LegacyTypeOK
  <2>3. n # Singleton /\ Feeds!TakenOverUnpointed => Feeds!TakenOverUnpointed'
    BY <1>4, <2>2, SiteAssumption DEF Feeds!TakenOverUnpointed
  <2>4. migrated' = migrated
    BY <1>4
  <2> QED
    BY <1>1, <2>1, <2>2, <2>3, <2>4, SiteAssumption DEF LegacyComplete, Feeds!LegacyComplete
<1>7. \A k \in Names : NewestExists(k)'
  <2>1. \A k \in Names \ {n} : revisions'[k] = revisions[k]
    BY <1>1, <1>4 DEF Feeds!LegacyTypeOK
  <2>2. revisions'[n] = revisions[n] \cup {i} /\ revisions[n] \subseteq Nat
    BY <1>1, <1>4 DEF Feeds!LegacyTypeOK
  <2>3. \A j \in revisions'[n] : j <= i
    BY <1>3, <2>2
  <2> QED
    BY <1>1, <2>1, <2>2, <2>3 DEF NewestExists
<1> QED
  BY <1>4, <1>5, <1>6, <1>7, CommitOutdates

\* A process ends and loses its transaction.
LEMMA DieInv ==
    ASSUME FeedsInv, NEW p \in Procs, Feeds!Die(p),
           writer' # p, \A q \in Procs : writer' = q => writer = q
    PROVE  FeedsInv'
<1>1. Feeds!LegacyTypeOK
  BY DEF FeedsInv
<1>2. UNCHANGED feedDb
  BY DEF Feeds!Die, Feeds!db, feedDb
<1>3. Feeds!LegacyTypeOK'
  BY <1>1, <1>2 DEF Feeds!LegacyTypeOK, Feeds!Die, Feeds!Forget, Feeds!Goto, Feeds!Labels, feedDb
<1>4. \A q \in Procs \ {p} :
          /\ stmt'[q] = stmt[q] /\ outdated'[q] = outdated[q] /\ feed'[q] = feed[q]
          /\ input'[q] = input[q] /\ next'[q] = next[q]
  BY <1>1 DEF Feeds!LegacyTypeOK, Feeds!Die, Feeds!Forget, Feeds!Goto
<1>5. SnapshotAt(p)'
  BY <1>1 DEF Feeds!LegacyTypeOK, SnapshotAt, Feeds!Die, Feeds!Forget, Feeds!Goto
<1> QED
  BY <1>2, <1>3, <1>4, <1>5, SnapshotStep

\* Requests commit too, and never hold the lock of a process.
LEMMA RequestKeepsSnapshots ==
    ASSUME FeedsInv, NEW w \in Workers, Request(w)
    PROVE  FeedsInv'
<1>1. \A p \in Procs : writer' = p => writer = p
  <2>1. writer' \in {writer, w, None}
    BY DEF Request, Arrive, Proceed, Advance, Stats, Event, BeginTx, Query, Insert, Count, Commit,
           Rows, Answer, Fail, Release
  <2> QED
    BY <2>1, DownloadsAssumption
<1>2. outdated' \in [Procs -> BOOLEAN]
  BY DEF FeedsInv, Feeds!LegacyTypeOK, Request, Feeds!Outdated
<1>3. \A p \in Procs : outdated[p] /\ stmt[p] \in {"number", "insert"} => outdated'[p]
  BY DEF Request, Feeds!Outdated
<1> QED
  BY <1>1, <1>2, <1>3, SnapshotsKept DEF Request

LEMMA FeedsStep ==
    ASSUME FeedsInv, [Next]_siteVars
    PROVE  FeedsInv'
<1>1. ASSUME NEW p \in Procs, Catalogue(p)
      PROVE  FeedsInv'
  BY <1>1, CatalogueReadInv, SaveInv, MigrateInv, InsertInv DEF Catalogue, Feeds!Step
<1>2. ASSUME NEW p \in Procs, UpsertInstaller(p)
      PROVE  FeedsInv'
  <2>1. outdated' \in [Procs -> BOOLEAN]
    BY <1>2 DEF UpsertInstaller, Feeds!Outdated
  <2>2. \A q \in Procs : outdated[q] /\ stmt[q] \in {"number", "insert"} => outdated'[q]
    BY <1>2 DEF UpsertInstaller, Feeds!Outdated
  <2> QED
    BY <1>2, <2>1, <2>2, SnapshotsKept DEF UpsertInstaller, downloadVars
<1>3. ASSUME NEW p \in Procs, ToolEnds(p)
      PROVE  FeedsInv'
  BY <1>3, DieInv, DownloadsAssumption DEF ToolEnds
<1>4. CASE ServerDies
  BY <1>4, DieInv, DownloadsAssumption, SiteAssumption DEF ServerDies
<1>5. CASE UNCHANGED siteVars
  BY <1>5, SnapshotsKept DEF FeedsInv, Feeds!LegacyTypeOK, siteVars, feedVars, downloadVars
<1> QED
  BY <1>1, <1>2, <1>3, <1>4, <1>5, RequestKeepsSnapshots DEF Next

\* Whatever processes and downloads commit, a snapshot that is not outdated is
\* the state of the tables.
THEOREM FeedsInvariant == Spec => []FeedsInv
<1>1. Init => FeedsInv
  <2> SUFFICES ASSUME Init PROVE FeedsInv
    OBVIOUS
  <2>1. Feeds!LegacyTypeOK
    BY DEF Init, Feeds!LegacyInit, Feeds!LegacyTypeOK, Feeds!Labels
  <2>2. LegacyComplete /\ \A n \in Names : NewestExists(n)
    BY DEF Init, Feeds!LegacyInit, LegacyComplete, Feeds!LegacyComplete, NewestExists
  <2>3. \A p \in Procs : SnapshotAt(p)
    BY DownloadsAssumption DEF Init, Feeds!LegacyInit, SnapshotAt
  <2> QED
    BY <2>1, <2>2, <2>3 DEF FeedsInv
<1>2. FeedsInv /\ [Next]_siteVars => FeedsInv'
  BY FeedsStep
<1> QED
  BY <1>1, <1>2, PTL DEF Spec

\* ensureDesktopUpdateSchema and SaveUpdateFeed leave whole tables, wherever a
\* transaction of any process was cut off.
THEOREM LegacyAlwaysComplete == Spec => []LegacyComplete
<1>1. FeedsInv => LegacyComplete
  BY DEF FeedsInv
<1> QED
  BY <1>1, FeedsInvariant, PTL

\* Only the migration and a save change the tables.
LEMMA TablesChange ==
    ASSUME [Next]_siteVars, ~UNCHANGED <<revisions, pointer>>
    PROVE  \E p \in Procs : Feeds!Migrate(p) \/ Feeds!Insert(p)
<1>1. \A w \in Workers : ~Request(w)
  BY DEF Request, feedDb
<1>2. \A p \in Procs : ~UpsertInstaller(p) /\ ~ToolEnds(p)
  BY DEF UpsertInstaller, ToolEnds, Feeds!Die, Feeds!db, feedDb
<1>3. ~ServerDies /\ ~UNCHANGED siteVars
  BY DEF ServerDies, Feeds!Die, Feeds!db, siteVars, feedVars, feedDb
<1>4. PICK p \in Procs : Catalogue(p)
  BY <1>1, <1>2, <1>3 DEF Next
<1> QED
  BY <1>4 DEF Catalogue, Feeds!Step, Feeds!Start, Feeds!CreateTables, Feeds!AlreadyMigrated,
              Feeds!NotYetMigrated, Feeds!Save, Feeds!Compare, Feeds!Conflict, Feeds!Number,
              Feeds!Fail, Feeds!db

\* SaveUpdateFeed moves a pointer only from the revision its editor has loaded,
\* although the transaction begins deferred and others commit meanwhile.
THEOREM SavesAreOnLoaded == Spec => SavedOnLoaded
<1>1. ASSUME FeedsInv, [Next]_siteVars, NEW n \in Names, NEW p \in Procs,
             stmt[p] = "insert", feed[p] = n, stmt'[p] # stmt[p], pointer'[n] # pointer[n]
      PROVE  pointer[n] = input[p]
  <2>1. PICK q \in Procs : Feeds!Migrate(q) \/ Feeds!Insert(q)
    BY <1>1, TablesChange
  <2>2. stmt \in [Procs -> Feeds!Labels]
    BY <1>1 DEF FeedsInv, Feeds!LegacyTypeOK
  <2>3. q = p
    BY <1>1, <2>1, <2>2
       DEF Feeds!Migrate, Feeds!Insert, Feeds!Commit, Feeds!End, Feeds!Forget, Feeds!Goto
  <2>4. Feeds!Insert(p)
    BY <1>1, <2>1, <2>3 DEF Feeds!Migrate
  <2> QED
    BY <1>1, <2>4, InsertKnows
<1>2. FeedsInv /\ [Next]_siteVars =>
         [\A n \in Names, p \in Procs :
             stmt[p] = "insert" /\ feed[p] = n /\ stmt'[p] # stmt[p] /\ pointer'[n] # pointer[n] =>
                 pointer[n] = input[p]]_(Feeds!legacyVars)
  BY <1>1
<1> QED
  BY <1>2, FeedsInvariant, PTL DEF Spec, SavedOnLoaded, Feeds!SavedOnLoaded

\* Revision numbers and pointers only go up, whoever saves and whichever process
\* starts, and whatever revision the singleton was set back to.
THEOREM NumbersAlwaysGoUp == Spec => NumbersGoUp
<1>1. ASSUME FeedsInv, [Next]_siteVars, NEW n \in Names
      PROVE  /\ revisions[n] \subseteq revisions'[n]
             /\ migrated => \A i \in revisions'[n] \ revisions[n], j \in revisions[n] : j < i
             /\ pointer[n] <= pointer'[n]
  <2>1. Feeds!LegacyTypeOK /\ LegacyComplete
    BY <1>1 DEF FeedsInv
  <2>2. pointer[n] \in Nat /\ (pointer[n] = 0 \/ pointer[n] \in revisions[n])
    BY <2>1 DEF Feeds!LegacyTypeOK, LegacyComplete, Feeds!LegacyComplete
  <2>3. ASSUME NEW p \in Procs, Feeds!Migrate(p)
        PROVE  \/ revisions'[n] = revisions[n] /\ pointer'[n] = pointer[n]
               \/ revisions[n] = {} /\ pointer[n] = 0 /\ pointer'[n] \in Nat
    <3>1. CASE OldTables /\ n = Singleton
      <4>1. /\ revisions[n] = {} /\ pointer[n] = 0
            /\ \E c \in OldCurrents : pointer' = [pointer EXCEPT ![Singleton] = c]
        BY <2>3, <3>1 DEF Feeds!Migrate, Feeds!WithSingleton
      <4> QED
        BY <2>1, <3>1, <4>1, SiteAssumption DEF Feeds!LegacyTypeOK
    <3>2. CASE ~OldTables \/ n # Singleton
      BY <2>1, <2>3, <3>2 DEF Feeds!Migrate, Feeds!WithSingleton, Feeds!LegacyTypeOK
    <3> QED
      BY <3>1, <3>2
  <2>4. ASSUME NEW p \in Procs, Feeds!Insert(p), feed[p] = n
        PROVE  /\ revisions'[n] = revisions[n] \cup {next[p]} /\ pointer'[n] = next[p]
               /\ next[p] \in Nat /\ \A j \in revisions[n] : j < next[p]
    <3>1. next[p] \in Nat /\ \A j \in revisions[n] : j < next[p]
      BY <1>1, <2>4, InsertKnows
    <3>2. revisions'[n] = revisions[n] \cup {next[p]} /\ pointer'[n] = next[p]
      BY <2>1, <2>4 DEF Feeds!LegacyTypeOK, Feeds!Insert
    <3> QED
      BY <3>1, <3>2
  <2>5. ASSUME NEW p \in Procs, Feeds!Insert(p), feed[p] # n
        PROVE  revisions'[n] = revisions[n] /\ pointer'[n] = pointer[n]
    BY <2>1, <2>5 DEF Feeds!LegacyTypeOK, Feeds!Insert
  <2>6. \/ revisions'[n] = revisions[n] /\ pointer'[n] = pointer[n]
        \/ revisions[n] = {} /\ pointer[n] = 0 /\ pointer'[n] \in Nat
        \/ \E p \in Procs : Feeds!Insert(p) /\ feed[p] = n
    BY <1>1, <2>3, <2>5, TablesChange
  <2> QED
    BY <2>2, <2>4, <2>6
<1>2. FeedsInv /\ [Next]_siteVars =>
         [\A n \in Names :
             /\ revisions[n] \subseteq revisions'[n]
             /\ migrated => \A i \in revisions'[n] \ revisions[n], j \in revisions[n] : j < i
             /\ pointer[n] <= pointer'[n]]_(Feeds!legacyVars)
  BY <1>1
<1> QED
  BY <1>2, FeedsInvariant, PTL DEF Spec, NumbersGoUp, Feeds!NumbersGoUp
=============================================================================
