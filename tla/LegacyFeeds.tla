----------------------------- MODULE LegacyFeeds -----------------------------
(***************************************************************************)
(* The update feeds in SQLite, internal/release/update_feeds.go: the tables *)
(* FeedDirectory imports from.  EnsureSchema migrates the singleton tables *)
(* of an older release into them once; every start of the server and every *)
(* run of releasectl calls it.  SaveUpdateFeed appends revisions and moves *)
(* the pointer of a feed; since feeds live in a directory only the tests   *)
(* of the repository call it, on a catalogue of their own, so its steps    *)
(* are those of the interface UpdateCatalog and of servers before that.    *)
(*                                                                         *)
(* Each process has one connection, so it runs one transaction at a time.  *)
(* SQLite in WAL mode: a transaction reads the database as it was at its   *)
(* first statement; its first write takes the only write lock of the file, *)
(* waits for it at most busy_timeout, and fails at once if somebody has    *)
(* committed since that first statement.  A process may die anywhere.      *)
(* SiteDatabase has the specification: the file has other writers too.     *)
(***************************************************************************)
EXTENDS Naturals, FiniteSets

CONSTANTS
    Names,        \* feed names
    Singleton,    \* desktop-latest.json
    OldReleases,  \* ID_s of desktop_update_release
    OldCurrents,  \* RELEASE_ID_ of desktop_update_current may be one of these;
                  \* 0: it has no row
    OldTables,    \* the singleton tables exist
    Procs,        \* the server, runs of releasectl, a server being replaced
    MaxRows,      \* no save starts once update_feed_revision has so many rows
    None          \* no process, no feed

VARIABLES
    tables,     \* the tables of this release exist
    migrated,   \* update_feed_migration has its row
    revisions,  \* name: the numbers in update_feed_revision
    pointer,    \* name: REVISION_ in update_feed, 0 without a row
    writer,     \* who holds the write lock of the file: a process of Procs, or another
    pc,         \* process: its next statement
    outdated,   \* process: somebody has committed since its snapshot
    feed,       \* process: the feed it saves
    input,      \* process: the revision its editor has loaded
    next,       \* process: the number it gives the new revision
    served      \* process: it has run EnsureSchema

db == <<tables, migrated, revisions, pointer>>
tx == <<pc, outdated, feed, input, next>>
legacyVars == <<db, writer, tx, served>>

Labels == {"idle", "create", "marker", "copy", "read", "number", "insert"}

LegacyTypeOK ==
    /\ tables \in BOOLEAN /\ migrated \in BOOLEAN
    /\ revisions \in [Names -> SUBSET (Nat \ {0})]
    /\ pointer \in [Names -> Nat]
    /\ pc \in [Procs -> Labels]
    /\ outdated \in [Procs -> BOOLEAN]
    /\ feed \in [Procs -> Names \cup {None}]
    /\ input \in [Procs -> Nat]
    /\ next \in [Procs -> Nat]
    /\ served \in [Procs -> BOOLEAN]

LegacyInit ==
    /\ tables = FALSE /\ migrated = FALSE
    /\ revisions = [n \in Names |-> {}]
    /\ pointer = [n \in Names |-> 0]
    /\ writer = None
    /\ pc = [p \in Procs |-> "idle"]
    /\ outdated = [p \in Procs |-> FALSE]
    /\ feed = [p \in Procs |-> None]
    /\ input = [p \in Procs |-> 0]
    /\ next = [p \in Procs |-> 0]
    /\ served = [p \in Procs |-> FALSE]

Goto(p, label) == pc' = [pc EXCEPT ![p] = label]

Forget(p) ==
    /\ Goto(p, "idle")
    /\ feed' = [feed EXCEPT ![p] = None]
    /\ input' = [input EXCEPT ![p] = 0]
    /\ next' = [next EXCEPT ![p] = 0]

\* The transaction ends.
End(p) ==
    /\ Forget(p)
    /\ writer' = IF writer = p THEN None ELSE writer

\* A commit that changed something outdates the snapshot of every transaction
\* that has read.
Outdated == [q \in Procs |-> pc[q] \notin {"idle", "create", "read"}]

Commit(p) ==
    /\ End(p)
    /\ outdated' = [Outdated EXCEPT ![p] = FALSE]

\* The first write of a transaction that has read: the lock must be free and
\* the snapshot current.  The statements up to Commit are one step with it,
\* for nobody sees them and nobody else can write.
MayWrite(p) == writer = p \/ (writer = None /\ ~outdated[p])

-----------------------------------------------------------------------------
(* EnsureSchema: ensureDesktopUpdateSchema *)

\* The table of the installers is created first, in a statement of its own.  It
\* is no table of the feeds; its commit could outdate the snapshot of another
\* process, which could then only fail, and Fail may come at any time.
Start(p) ==
    /\ pc[p] = "idle" /\ ~served[p]
    /\ Goto(p, "create")
    /\ UNCHANGED <<db, writer, outdated, feed, input, next, served>>

\* CREATE TABLE IF NOT EXISTS writes only when there is nothing yet.
CreateTables(p) ==
    /\ pc[p] = "create"
    /\ tables \/ writer = None
    /\ writer' = IF tables THEN writer ELSE p
    /\ Goto(p, "marker")
    /\ UNCHANGED <<db, outdated, feed, input, next, served>>

\* What the migration makes of f, a table indexed by feed name.
WithSingleton(f, value) == IF OldTables THEN [f EXCEPT ![Singleton] = value] ELSE f

\* SELECT COUNT(*) FROM update_feed_migration.  Nothing to do: the transaction
\* is committed without a write.
AlreadyMigrated(p) ==
    /\ pc[p] = "marker"
    /\ migrated
    /\ End(p)
    /\ outdated' = [outdated EXCEPT ![p] = FALSE]
    /\ served' = [served EXCEPT ![p] = TRUE]
    /\ UNCHANGED db

NotYetMigrated(p) ==
    /\ pc[p] = "marker"
    /\ ~migrated
    /\ Goto(p, "copy")
    /\ UNCHANGED <<db, writer, outdated, feed, input, next, served>>

\* Mutant: the marker is committed first, the copy afterwards.
MigrateMarkedFirst(p) ==
    /\ pc[p] = "copy"
    /\ MayWrite(p)
    /\ tables' = TRUE /\ migrated' = TRUE
    /\ IF migrated
       THEN /\ revisions' = WithSingleton(revisions, OldReleases)
            /\ \E c \in OldCurrents : pointer' = WithSingleton(pointer, c)
            /\ Commit(p)
            /\ served' = [served EXCEPT ![p] = TRUE]
       ELSE UNCHANGED <<revisions, pointer, tx, writer, served>>

\* Every release of the singleton under its number, the pointer if there is a
\* current row, the marker, Commit.  A row that is there already would violate
\* a primary key.  Nobody but the migration reads the old row, so which of
\* OldCurrents it is need not be settled before.
Migrate(p) ==
    /\ pc[p] = "copy"
    /\ MayWrite(p)
    /\ OldTables => revisions[Singleton] = {} /\ pointer[Singleton] = 0
    /\ tables' = TRUE /\ migrated' = TRUE
    /\ revisions' = WithSingleton(revisions, OldReleases)
    /\ \E c \in OldCurrents : pointer' = WithSingleton(pointer, c)
    /\ Commit(p)
    /\ served' = [served EXCEPT ![p] = TRUE]

-----------------------------------------------------------------------------
(* SaveUpdateFeed *)

\* An editor of p submits a valid manifest with the revision r it has loaded.
Save(p, n, r) ==
    /\ pc[p] = "idle" /\ served[p]
    /\ Cardinality(UNION {{m} \X revisions[m] : m \in Names}) < MaxRows
    /\ feed' = [feed EXCEPT ![p] = n]
    /\ input' = [input EXCEPT ![p] = r]
    /\ Goto(p, "read")
    /\ UNCHANGED <<db, writer, outdated, next, served>>

\* current == input.Revision, in the snapshot that starts here.
Current(p) == pointer[feed[p]] = input[p]

Compare(p) ==
    /\ pc[p] = "read"
    /\ Current(p)
    /\ outdated' = [outdated EXCEPT ![p] = FALSE]
    /\ Goto(p, "number")
    /\ UNCHANGED <<db, writer, feed, input, next, served>>

\* ErrUpdateConflict
Conflict(p) ==
    /\ pc[p] = "read"
    /\ ~Current(p)
    /\ End(p)
    /\ UNCHANGED <<db, outdated, served>>

\* Mutant: the number after the one the pointer names.
AfterPointer(p) == input[p] + 1

Highest(S) == CHOOSE i \in S : \A j \in S : j <= i

\* COALESCE(MAX(REVISION_), 0) + 1: the pointer may be behind the newest.
NextNumber(p) ==
    IF revisions[feed[p]] = {} THEN 1 ELSE Highest(revisions[feed[p]]) + 1

\* In the snapshot of p: it has changed since only if p is outdated, and then
\* the write fails.
Number(p) ==
    /\ pc[p] = "number"
    /\ next' = [next EXCEPT ![p] = NextNumber(p)]
    /\ Goto(p, "insert")
    /\ UNCHANGED <<db, writer, outdated, feed, input, served>>

\* Mutant: the transaction does not notice what was committed meanwhile, as
\* when the two SELECTs run before BeginTx.
InsertLate(p) ==
    /\ pc[p] = "insert"
    /\ writer = None
    /\ revisions' = [revisions EXCEPT ![feed[p]] = @ \cup {next[p]}]
    /\ pointer' = [pointer EXCEPT ![feed[p]] = next[p]]
    /\ Commit(p)
    /\ UNCHANGED <<tables, migrated, served>>

\* INSERT of the revision, the pointer, Commit.  A number that is there
\* already violates the primary key.
Insert(p) ==
    /\ pc[p] = "insert"
    /\ MayWrite(p)
    /\ next[p] \notin revisions[feed[p]]
    /\ revisions' = [revisions EXCEPT ![feed[p]] = @ \cup {next[p]}]
    /\ pointer' = [pointer EXCEPT ![feed[p]] = next[p]]
    /\ Commit(p)
    /\ UNCHANGED <<tables, migrated, served>>

-----------------------------------------------------------------------------
\* SQLITE_BUSY, another error, a context that ends; Rollback.
Fail(p) ==
    /\ pc[p] # "idle"
    /\ End(p)
    /\ outdated' = [outdated EXCEPT ![p] = FALSE]
    /\ UNCHANGED <<db, served>>

\* The process ends, in a transaction or not, and is started again.
Die(p) ==
    /\ served[p] \/ pc[p] # "idle"
    /\ Forget(p)
    /\ outdated' = [outdated EXCEPT ![p] = FALSE]
    /\ served' = [served EXCEPT ![p] = FALSE]
    /\ UNCHANGED db

Step(p) ==
    \/ Start(p) \/ CreateTables(p) \/ AlreadyMigrated(p) \/ NotYetMigrated(p) \/ Migrate(p)
    \/ \E n \in Names : \E r \in {0} \cup revisions[n] : Save(p, n, r)
    \/ Compare(p) \/ Conflict(p) \/ Number(p) \/ Insert(p)
    \/ Fail(p)

-----------------------------------------------------------------------------
(* Properties *)

TakenOverUnpointed ==
    /\ OldTables /\ 0 \in OldCurrents
    /\ migrated /\ revisions[Singleton] = OldReleases

\* What FeedDirectory assumes of the tables it imports, in every state another
\* process or a restart can find: a pointer names a revision of its feed; a
\* feed with revisions has a pointer, unless it is the singleton as it was
\* taken over without a current row; and after the migration all releases of
\* the singleton are there ("Preserve the original singleton under its
\* existing public name, including history").
LegacyComplete ==
    /\ \A n \in Names :
          \/ pointer[n] \in revisions[n]
          \/ pointer[n] = 0 /\ (revisions[n] = {} \/ (n = Singleton /\ TakenOverUnpointed))
    /\ migrated /\ OldTables => OldReleases \subseteq revisions[Singleton]

\* A save moves the pointer only from the revision its editor has loaded, also
\* against saves of another process: between the comparison and the commit
\* nobody else has moved it.
SavedOnLoaded ==
    [][\A n \in Names, p \in Procs :
          pc[p] = "insert" /\ feed[p] = n /\ pc'[p] # pc[p] /\ pointer'[n] # pointer[n] =>
              pointer[n] = input[p]]_legacyVars

\* Numbers only go up, even where the pointer of the singleton was set back to
\* an older release: so the order of the numbers is the order of the saves,
\* which the import relies on, and no number is given twice.  A pointer only
\* goes up too, so no start of a process sets it back ("never re-import on
\* startup").
NumbersGoUp ==
    [][\A n \in Names :
          /\ revisions[n] \subseteq revisions'[n]
          /\ migrated => \A i \in revisions'[n] \ revisions[n], j \in revisions[n] : j < i
          /\ pointer[n] <= pointer'[n]]_legacyVars
=============================================================================
