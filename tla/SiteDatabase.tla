---------------------------- MODULE SiteDatabase -----------------------------
(***************************************************************************)
(* The SQLite file of the site and everybody who writes to it: the server, *)
(* whose download handle (Downloads) and catalogue handle (LegacyFeeds)    *)
(* are two connections of one process, and runs of releasectl.  They meet  *)
(* in the one write lock of the file, and in the snapshots that a commit   *)
(* of any of them outdates.  The server answers requests once it has run   *)
(* EnsureSchema (cmd/server/main.go); when it dies both handles go.        *)
(***************************************************************************)
EXTENDS Downloads

CONSTANTS Names, Singleton, OldReleases, OldCurrents, OldTables, MaxRows,
    Server  \* the one of Procs that serves the site

VARIABLES tables, migrated, revisions, pointer, stmt, outdated, feed, input, next, served

Feeds == INSTANCE LegacyFeeds WITH pc <- stmt

ASSUME SiteAssumption ==
    /\ Singleton \in Names
    /\ OldReleases \subseteq Nat \ {0}
    /\ OldTables \in BOOLEAN
    /\ OldReleases # {} => \E i \in OldReleases : \A j \in OldReleases : j <= i
    /\ OldCurrents \subseteq OldReleases \cup {0}
    /\ MaxRows \in Nat
    /\ None \notin Names
    /\ Server \in Procs

feedDb == <<tables, migrated, revisions, pointer>>
feedVars == <<feedDb, stmt, outdated, feed, input, next, served>>
requestVars == <<db, conn, pc, key, draft, accepted>>
siteVars == <<downloadVars, feedVars>>

Init == DownloadsInit /\ Feeds!LegacyInit

\* A request arrives at a server that is listening, or goes on; counting a
\* download is a commit like any other.
Request(w) ==
    /\ Proceed(w) \/ (served[Server] /\ Arrive(w))
    /\ outdated' = IF events' # events THEN Feeds!Outdated ELSE outdated
    /\ UNCHANGED <<feedDb, stmt, feed, input, next, served>>

Catalogue(p) == Feeds!Step(p) /\ UNCHANGED requestVars

\* The row of an installer, one statement after EnsureSchema of releasectl: a
\* commit too.
UpsertInstaller(p) ==
    /\ p # Server
    /\ served[p] /\ stmt[p] = "idle"
    /\ writer = None
    /\ outdated' = Feeds!Outdated
    /\ UNCHANGED <<downloadVars, feedDb, stmt, feed, input, next, served>>

ServerDies ==
    /\ Feeds!Die(Server)
    /\ DropRequests
    /\ writer' = IF writer \in Workers \cup {Server} THEN None ELSE writer
    /\ UNCHANGED <<db, accepted>>

\* A run of releasectl is over, or killed; the next one starts anew.
ToolEnds(p) ==
    /\ p # Server
    /\ Feeds!Die(p)
    /\ writer' = IF writer = p THEN None ELSE writer
    /\ UNCHANGED requestVars

Next ==
    \/ \E w \in Workers : Request(w)
    \/ \E p \in Procs : Catalogue(p) \/ UpsertInstaller(p) \/ ToolEnds(p)
    \/ ServerDies

Spec == Init /\ [][Next]_siteVars

FairSpec == Spec /\ Fairness

-----------------------------------------------------------------------------
(* Properties: those of Downloads, and here those of LegacyFeeds, each of    *)
(* them now against the steps of the other component too.                   *)

\* The tables FeedDirectory imports are whole in every state a start can find,
\* whichever transaction was cut off: see LegacyFeeds.
LegacyComplete == Feeds!LegacyComplete

\* A save moves a pointer only from the revision its editor has loaded, also
\* against another process: the snapshot a download or a save outdates cannot
\* be written on.
SavedOnLoaded == Feeds!SavedOnLoaded

\* Revision numbers and pointers only go up, also where the pointer taken over
\* was set back and whenever a process starts.
NumbersGoUp == Feeds!NumbersGoUp
=============================================================================
