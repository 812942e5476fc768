------------------------------ MODULE Downloads ------------------------------
(***************************************************************************)
(* Download statistics: downloadEvent and downloadStats of server.go over  *)
(* the SQLiteDownloadStore of internal/auth/download_store.go.             *)
(*                                                                         *)
(* Its handle has one connection (SetMaxOpenConns(1)): a transaction holds *)
(* it from BeginTx to Commit or Rollback and every other request waits.    *)
(* The database file has one writer: the catalogue's handle of the server  *)
(* and runs of releasectl write to it as well (SiteDatabase puts them      *)
(* together), and a statement that waits longer than busy_timeout fails.   *)
(* What a transaction has not committed is lost by an error, a client that *)
(* leaves, or a crash.                                                     *)
(***************************************************************************)
EXTENDS Naturals, FiniteSets

CONSTANTS
    Keys,       \* "mac", "windows"
    Requested,  \* what a request may name
    Workers,    \* requests
    MaxEvents,  \* bound on the events recorded per key
    Procs,      \* processes that write to the database file on handles of their own
    None        \* no worker, no key

ASSUME DownloadsAssumption ==
    /\ MaxEvents \in Nat
    /\ IsFiniteSet(Workers)
    /\ Keys \subseteq Requested
    /\ None \notin Keys \cup Workers \cup Procs /\ Workers \cap Procs = {}

VARIABLES
    events,    \* key: committed rows of table download
    total,     \* key: committed TOTAL_ of download_stat, 0 without a row
    conn,      \* the worker holding the connection of the handle
    writer,    \* who holds the write lock of the file
    pc,        \* worker: its next statement
    key,       \* worker: the installer it is about
    draft,     \* worker: what its transaction has written
    accepted   \* history, per key: answers 202

db == <<events, total>>
downloadVars == <<db, conn, writer, pc, key, draft, accepted>>

Counts == [Keys -> 0 .. MaxEvents]
Zero == [k \in Keys |-> 0]
NoDraft == [event |-> FALSE, count |-> FALSE]
Labels == {"idle", "begin", "insert", "count", "commit", "wait", "query", "answer"}

DownloadsTypeOK ==
    /\ events \in Counts /\ total \in Counts /\ accepted \in Counts
    /\ conn \in Workers \cup {None}
    /\ writer \in Workers \cup Procs \cup {None}
    /\ pc \in [Workers -> Labels]
    /\ key \in [Workers -> Keys \cup {None}]
    /\ draft \in [Workers -> [event: BOOLEAN, count: BOOLEAN]]

DownloadsInit ==
    /\ events = Zero /\ total = Zero /\ accepted = Zero
    /\ conn = None /\ writer = None
    /\ pc = [w \in Workers |-> "idle"]
    /\ key = [w \in Workers |-> None]
    /\ draft = [w \in Workers |-> NoDraft]

Goto(w, label) == pc' = [pc EXCEPT ![w] = label]

\* The transaction or query is over: its connection and its lock are free.
Release(w) ==
    /\ conn' = IF conn = w THEN None ELSE conn
    /\ writer' = IF writer = w THEN None ELSE writer
    /\ draft' = [draft EXCEPT ![w] = NoDraft]

Done(w) ==
    /\ key' = [key EXCEPT ![w] = None]
    /\ Goto(w, "idle")

-----------------------------------------------------------------------------
(* downloadEvent, RecordDownloadEvent *)

\* allowedInstallerKeys
Allowed(k) == k \in Keys

\* downloadEvent; a key that is not allowed is answered 400 at once.
Event(w, k) ==
    /\ pc[w] = "idle"
    /\ Allowed(k)
    /\ k \in Keys => events[k] + Cardinality({v \in Workers : key[v] = k}) < MaxEvents
    /\ key' = [key EXCEPT ![w] = k]
    /\ Goto(w, "begin")
    /\ UNCHANGED <<db, conn, writer, draft, accepted>>

\* BeginTx waits for the connection.
BeginTx(w) ==
    /\ pc[w] = "begin"
    /\ conn = None
    /\ conn' = w
    /\ Goto(w, "insert")
    /\ UNCHANGED <<db, writer, key, draft, accepted>>

\* Mutant: the event is inserted outside the transaction.
InsertAtOnce(w) ==
    /\ pc[w] = "insert"
    /\ writer = None
    /\ events' = [events EXCEPT ![key[w]] = @ + 1]
    /\ Goto(w, "count")
    /\ UNCHANGED <<total, conn, writer, key, draft, accepted>>

\* The first write of the transaction takes the lock of the file.
Insert(w) ==
    /\ pc[w] = "insert"
    /\ writer = None
    /\ writer' = w
    /\ draft' = [draft EXCEPT ![w].event = TRUE]
    /\ Goto(w, "count")
    /\ UNCHANGED <<db, conn, key, accepted>>

\* TOTAL_ = TOTAL_ + 1, or a row with 1.
Count(w) ==
    /\ pc[w] = "count"
    /\ draft' = [draft EXCEPT ![w].count = TRUE]
    /\ Goto(w, "commit")
    /\ UNCHANGED <<db, conn, writer, key, accepted>>

Applied(counts, w, written) ==
    IF written THEN [counts EXCEPT ![key[w]] = @ + 1] ELSE counts

\* Commit; RecordDownloadEvent returns.
Commit(w) ==
    /\ pc[w] = "commit"
    /\ events' = Applied(events, w, draft[w].event)
    /\ total' = Applied(total, w, draft[w].count)
    /\ Release(w)
    /\ Goto(w, "answer")
    /\ UNCHANGED <<key, accepted>>

\* 202, or the totals.
Answer(w) ==
    /\ pc[w] = "answer"
    /\ accepted' = IF key[w] = None THEN accepted ELSE [accepted EXCEPT ![key[w]] = @ + 1]
    /\ Done(w)
    /\ UNCHANGED <<db, conn, writer, draft>>

\* Mutant: an error in the transaction leaves it open.
FailOpen(w) ==
    /\ pc[w] \notin {"idle", "answer"}
    /\ Done(w)
    /\ UNCHANGED <<db, conn, writer, draft, accepted>>

\* Mutant: the error of the transaction is dropped and 202 answered.
FailAccepted(w) ==
    /\ pc[w] \notin {"idle", "answer"}
    /\ Release(w)
    /\ Goto(w, "answer")
    /\ UNCHANGED <<db, key, accepted>>

\* busy_timeout, any other error, a context that ends: Rollback and 500.
Fail(w) ==
    /\ pc[w] \notin {"idle", "answer"}
    /\ Release(w)
    /\ Done(w)
    /\ UNCHANGED <<db, accepted>>

-----------------------------------------------------------------------------
(* downloadStats, ListDownloadStats *)

Stats(w) ==
    /\ pc[w] = "idle"
    /\ Goto(w, "wait")
    /\ UNCHANGED <<db, conn, writer, key, draft, accepted>>

Query(w) ==
    /\ pc[w] = "wait"
    /\ conn = None
    /\ conn' = w
    /\ Goto(w, "query")
    /\ UNCHANGED <<db, writer, key, draft, accepted>>

\* One SELECT: the committed totals, 0 for a key without a row.
Rows(w) ==
    /\ pc[w] = "query"
    /\ Release(w)
    /\ Goto(w, "answer")
    /\ UNCHANGED <<db, key, accepted>>

-----------------------------------------------------------------------------
\* Somebody else takes the write lock, or gives it back.
OtherLocks ==
    /\ writer = None
    /\ writer' \in Procs
    /\ UNCHANGED <<db, conn, pc, key, draft, accepted>>

OtherUnlocks ==
    /\ writer \in Procs
    /\ writer' = None
    /\ UNCHANGED <<db, conn, pc, key, draft, accepted>>

\* Requests end with the process that runs them.
DropRequests ==
    /\ conn' = None
    /\ pc' = [w \in Workers |-> "idle"]
    /\ key' = [w \in Workers |-> None]
    /\ draft' = [w \in Workers |-> NoDraft]

\* The server dies; the write-ahead log forgets what was not committed.
Crash ==
    /\ DropRequests
    /\ writer' \in IF writer \in Procs THEN {writer, None} ELSE {None}
    /\ UNCHANGED <<db, accepted>>

\* What a goroutine does by itself once it has what it waits for.
Advance(w) ==
    \/ Insert(w) \/ Count(w) \/ Commit(w) \/ Rows(w) \/ Answer(w) \/ Fail(w)

\* The requests by themselves; a request begins with Event or Stats.
Arrive(w) == Stats(w) \/ \E k \in Requested : Event(w, k)
Proceed(w) == BeginTx(w) \/ Query(w) \/ Advance(w)

DownloadsNext ==
    \/ \E w \in Workers : Arrive(w) \/ Proceed(w)
    \/ OtherLocks \/ OtherUnlocks \/ Crash

\* The component in its environment, of which it only assumes that others take
\* the write lock when it is free, give back their own, and never the lock of
\* a request, which ends with its transaction or with the server.
DownloadsSpec == DownloadsInit /\ [][DownloadsNext]_downloadVars

\* A transaction goes on or fails: a busy statement fails after 5 s.  A request
\* that only waits for the connection has no timeout of its own; each time the
\* connection is given back, database/sql hands it to a waiter picked at
\* random, so one that waits through infinitely many of them is picked with
\* probability one: strong fairness.
Fairness ==
    \A w \in Workers :
        /\ WF_downloadVars(Advance(w) /\ pc[w] \notin {"begin", "wait"})
        /\ SF_downloadVars(BeginTx(w)) /\ SF_downloadVars(Query(w))

-----------------------------------------------------------------------------
(* Properties *)

\* The counter and the log of events agree in every state a reader or a
\* restart can find, wherever a transaction was cut off.
TotalsMatchEvents == total = events

\* Every event that was, or is about to be, answered 202 is counted: errors,
\* rolled back transactions and crashes only ever lose events that nobody was
\* told of.
AcceptedIsCounted ==
    \A k \in Keys :
        accepted[k] + Cardinality({w \in Workers : key[w] = k /\ pc[w] = "answer"})
            <= total[k]

\* Every request is answered: none leaves with the only connection.
EveryDownloadAnswers ==
    \A w \in Workers : pc[w] \in {"begin", "wait"} ~> pc[w] = "idle"
=============================================================================
