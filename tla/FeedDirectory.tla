---------------------------- MODULE FeedDirectory ----------------------------
(***************************************************************************)
(* The directory of update feeds, internal/release/directory_updates.go:   *)
(* a public file, a disabled file and an Admin sidecar per feed name,      *)
(* edited by concurrent administrators, replaced by hand, and filled once  *)
(* from the old SQLite tables when the server starts.                      *)
(*                                                                         *)
(* One step is one file operation.  atomicWrite (temporary file, Sync,     *)
(* Rename) replaces a file in one step, so a reader sees the old or the    *)
(* new content; a crash leaves at most a stray temporary file, which no    *)
(* name matches.  A crash or an I/O error may come between any two steps   *)
(* and nothing that was written is undone.                                 *)
(*                                                                         *)
(* Files are written by hand with a rename, and only while no save holds   *)
(* the mutex and no import runs: README asks publishers to coordinate with *)
(* Admin, because no lock of the server can keep them out.                 *)
(***************************************************************************)
EXTENDS Naturals, Sequences, FiniteSets

CONSTANTS
    Names,         \* feed names that satisfy ValidUpdateName
    Contents,      \* what a file may hold
    Manifests,     \* accepted by ValidateDesktopManifest, in compact form
    Readable,      \* manifests whose indented file stays within the limit of read
    Absent,        \* no file
    Legacy,        \* name: its history in SQLite, << >> if it has none
    LegacyCurrent, \* name: which entry of it update_feed points at
    Workers,       \* requests of the Admin API
    MaxRevisions,  \* bound: no save of a feed is submitted beyond it
    None           \* no worker, no name

VARIABLES
    pub,        \* name: the public file
    off,        \* name: the file in .disabled
    side,       \* name: the history in .admin, << >> if there is no sidecar
    marker,     \* .admin/.sqlite-exported exists
    server,     \* "down", "importing", "serving"
    todo,       \* names importLegacy has not finished
    exporting,  \* the name whose sidecar it has just seen to
    mutex,      \* the worker holding c.mu
    pc,         \* worker: its next file operation
    phase,      \* worker: which call of GetUpdateFeed it is in
    name,       \* worker: the feed it works on
    seen,       \* worker: the feed as its editor loaded it
    want,       \* worker: what its editor wants to save
    file,       \* worker: the file GetUpdateFeed has read
    hist        \* worker: the history it has read

disk == <<pub, off, side, marker>>
import == <<server, todo, exporting>>
worker == <<pc, phase, name, seen, want, file, hist>>
feedVars == <<disk, import, mutex, worker>>

\* A file as GetUpdateFeed finds it: the content, and in which directory.
Found == [content: Contents \cup {Absent}, enabled: BOOLEAN]
NoFile == [content |-> Absent, enabled |-> FALSE]

\* A feed as Admin sees it.  Its ETag is a hash of content, enabled and
\* revision, so equality of snapshots is equality of ETags and revisions.
Snapshot == [content: Contents \cup {Absent}, enabled: BOOLEAN, revision: Nat]
Shown(found, revision) ==
    [content |-> found.content, enabled |-> found.enabled, revision |-> revision]
NotFound == Shown(NoFile, 0)

\* An entry of a history.
Entry == [content: Manifests, enabled: BOOLEAN, revision: Nat]

ASSUME FeedAssumption ==
    /\ Readable \subseteq Manifests /\ Manifests \subseteq Contents
    /\ Absent \notin Contents
    /\ None \notin Names \cup Workers
    /\ MaxRevisions \in Nat
    /\ Legacy \in [Names -> Seq(Entry)]
    /\ LegacyCurrent \in [Names -> Nat]
    /\ \A n \in Names : Legacy[n] # << >> => LegacyCurrent[n] \in DOMAIN Legacy[n]

LegacyNames == {n \in Names : Legacy[n] # << >>}

Last(h) == h[Len(h)]
Revision(h) == IF h = << >> THEN 0 ELSE Last(h).revision

\* What the directory shows for n: a public file hides a disabled one.
File(n) ==
    IF pub[n] # Absent THEN [content |-> pub[n], enabled |-> TRUE]
    ELSE [content |-> off[n], enabled |-> FALSE]

\* GetUpdateFeed without interference.
Current(n) ==
    IF File(n) = NoFile THEN NotFound ELSE Shown(File(n), Revision(side[n]))

Labels == {"idle", "edit", "lock", "readPub", "readOff", "readSide", "compare",
           "write", "remove", "record"}
Phases == {"load", "check", "confirm"}

FeedTypeOK ==
    /\ pub \in [Names -> Contents \cup {Absent}]
    /\ off \in [Names -> Contents \cup {Absent}]
    /\ side \in [Names -> Seq(Entry)]
    /\ marker \in BOOLEAN
    /\ server \in {"down", "importing", "serving"}
    /\ todo \subseteq Names
    /\ exporting \in todo \cup {None}
    /\ mutex \in Workers \cup {None}
    /\ pc \in [Workers -> Labels]
    /\ phase \in [Workers -> Phases]
    /\ name \in [Workers -> Names \cup {None}]
    /\ seen \in [Workers -> Snapshot]
    /\ want \in [Workers -> Found]
    /\ file \in [Workers -> Found]
    /\ hist \in [Workers -> Seq(Entry)]

IdleWorkers ==
    /\ pc = [w \in Workers |-> "idle"]
    /\ phase = [w \in Workers |-> "load"]
    /\ name = [w \in Workers |-> None]
    /\ seen = [w \in Workers |-> NotFound]
    /\ want = [w \in Workers |-> NoFile]
    /\ file = [w \in Workers |-> NoFile]
    /\ hist = [w \in Workers |-> << >>]

\* Before the first start: any files, put there by hand or from a backup.
Init ==
    /\ pub \in [Names -> Contents \cup {Absent}]
    /\ off \in [Names -> Contents \cup {Absent}]
    /\ side = [n \in Names |-> << >>]
    /\ marker = FALSE
    /\ server = "down"
    /\ todo = {}
    /\ exporting = None
    /\ mutex = None
    /\ IdleWorkers

-----------------------------------------------------------------------------
(* Start: OpenDirectoryUpdates and importLegacy *)

\* A temporary file in the same directory, Sync, Rename: the file of n is
\* replaced in one step or not at all.
AtomicWrite(dir, n, data) == [dir EXCEPT ![n] = data]

\* With the marker there is nothing to import.
Start ==
    /\ server = "down"
    /\ IF marker
       THEN server' = "serving" /\ todo' = {}
       ELSE server' = "importing" /\ todo' = LegacyNames
    /\ UNCHANGED <<disk, exporting, mutex, worker>>

\* The sidecar of the next feed, unless there is one.
ImportSidecar(n) ==
    /\ server = "importing" /\ exporting = None
    /\ n \in todo
    /\ side' = IF side[n] = << >> THEN AtomicWrite(side, n, Legacy[n]) ELSE side
    /\ exporting' = n
    /\ UNCHANGED <<pub, off, marker, server, todo, mutex, worker>>

\* Mutant: only the public file is looked for.
ImportFilePublic ==
    LET n == exporting
        current == Legacy[n][LegacyCurrent[n]]
        free == pub[n] = Absent
    IN  /\ server = "importing" /\ exporting # None
        /\ pub' = IF free /\ current.enabled THEN AtomicWrite(pub, n, current.content) ELSE pub
        /\ off' = IF free /\ ~current.enabled THEN AtomicWrite(off, n, current.content) ELSE off
        /\ todo' = todo \ {n}
        /\ exporting' = None
        /\ UNCHANGED <<side, marker, server, mutex, worker>>

\* Its file, unless there is a public or a disabled one.
ImportFile ==
    LET n == exporting
        current == Legacy[n][LegacyCurrent[n]]
        free == pub[n] = Absent /\ off[n] = Absent
    IN  /\ server = "importing" /\ exporting # None
        /\ pub' = IF free /\ current.enabled THEN AtomicWrite(pub, n, current.content) ELSE pub
        /\ off' = IF free /\ ~current.enabled THEN AtomicWrite(off, n, current.content) ELSE off
        /\ todo' = todo \ {n}
        /\ exporting' = None
        /\ UNCHANGED <<side, marker, server, mutex, worker>>

\* Mutant: the marker may be written before the export is complete.
ImportDoneEarly ==
    /\ server = "importing" /\ exporting = None
    /\ marker' = TRUE
    /\ server' = IF todo = {} THEN "serving" ELSE server
    /\ UNCHANGED <<pub, off, side, todo, exporting, mutex, worker>>

\* The marker comes last; then the server listens.
ImportDone ==
    /\ server = "importing" /\ exporting = None /\ todo = {}
    /\ marker' = TRUE
    /\ server' = "serving"
    /\ UNCHANGED <<pub, off, side, todo, exporting, mutex, worker>>

\* The process dies, or an error makes OpenDirectoryUpdates give up.
Crash ==
    /\ server # "down"
    /\ server' = "down"
    /\ todo' = {}
    /\ exporting' = None
    /\ mutex' = None
    /\ pc' = [w \in Workers |-> "idle"]
    /\ phase' = [w \in Workers |-> "load"]
    /\ name' = [w \in Workers |-> None]
    /\ seen' = [w \in Workers |-> NotFound]
    /\ want' = [w \in Workers |-> NoFile]
    /\ file' = [w \in Workers |-> NoFile]
    /\ hist' = [w \in Workers |-> << >>]
    /\ UNCHANGED disk

-----------------------------------------------------------------------------
(* Reading: GetUpdateFeed.  adminUpdateDetail calls it without the mutex,   *)
(* SaveUpdateFeed twice with it.                                           *)

Goto(w, label) == pc' = [pc EXCEPT ![w] = label]

Idle(w) ==
    /\ Goto(w, "idle")
    /\ phase' = [phase EXCEPT ![w] = "load"]
    /\ name' = [name EXCEPT ![w] = None]
    /\ seen' = [seen EXCEPT ![w] = NotFound]
    /\ want' = [want EXCEPT ![w] = NoFile]
    /\ file' = [file EXCEPT ![w] = NoFile]
    /\ hist' = [hist EXCEPT ![w] = << >>]

\* The deferred Unlock.
Unlock(w) == mutex' = IF mutex = w THEN None ELSE mutex

\* An editor opens a feed that exists or that it wants to create.
Load(w, n) ==
    /\ server = "serving"
    /\ pc[w] = "idle"
    /\ Goto(w, "readPub")
    /\ name' = [name EXCEPT ![w] = n]
    /\ UNCHANGED <<disk, import, mutex, phase, seen, want, file, hist>>

\* The public file; when there is none, the disabled one is next.
ReadPub(w) ==
    LET n == name[w] IN
    /\ pc[w] = "readPub"
    /\ \/ /\ pub[n] = Absent
          /\ Goto(w, "readOff")
          /\ UNCHANGED file
       \/ /\ pub[n] \in Readable
          /\ Goto(w, "readSide")
          /\ file' = [file EXCEPT ![w] = [content |-> pub[n], enabled |-> TRUE]]
    /\ UNCHANGED <<disk, import, mutex, phase, name, seen, want, hist>>

ReadOff(w) ==
    LET n == name[w] IN
    /\ pc[w] = "readOff"
    /\ off[n] \in Readable \cup {Absent}
    /\ Goto(w, "readSide")
    /\ file' = [file EXCEPT ![w] = [content |-> off[n], enabled |-> FALSE]]
    /\ UNCHANGED <<disk, import, mutex, phase, name, seen, want, hist>>

\* The feed as read in three steps.
Assembled(w, h) == IF file[w] = NoFile THEN NotFound ELSE Shown(file[w], Revision(h))

\* adminUpdateDetail answers; the editor has the feed and its ETag.  (A feed
\* that was not found is answered before the sidecar is read.)
ReadSideLoad(w) ==
    /\ pc[w] = "readSide" /\ phase[w] = "load"
    /\ seen' = [seen EXCEPT ![w] = Assembled(w, side[name[w]])]
    /\ file' = [file EXCEPT ![w] = NoFile]
    /\ Goto(w, "edit")
    /\ UNCHANGED <<disk, import, mutex, phase, name, want, hist>>

-----------------------------------------------------------------------------
(* Saving: adminUpdateSave, SaveUpdateFeed *)

\* The editor submits a valid manifest with the ETag and revision it has.
Submit(w, m, enabled) ==
    /\ pc[w] = "edit"
    /\ Len(side[name[w]]) < MaxRevisions
    /\ want' = [want EXCEPT ![w] = [content |-> m, enabled |-> enabled]]
    /\ Goto(w, "lock")
    /\ UNCHANGED <<disk, import, mutex, phase, name, seen, file, hist>>

\* Mutant: no mutex.
LockNothing(w) ==
    /\ pc[w] = "lock"
    /\ Goto(w, "readPub")
    /\ phase' = [phase EXCEPT ![w] = "check"]
    /\ UNCHANGED <<disk, import, mutex, name, seen, want, file, hist>>

Lock(w) ==
    /\ pc[w] = "lock"
    /\ mutex = None
    /\ mutex' = w
    /\ Goto(w, "readPub")
    /\ phase' = [phase EXCEPT ![w] = "check"]
    /\ UNCHANGED <<disk, import, name, seen, want, file, hist>>

\* The history, read for GetUpdateFeed and for the new entry: nothing writes
\* it between the two reads of the code.
ReadSideCheck(w) ==
    /\ pc[w] = "readSide" /\ phase[w] = "check"
    /\ hist' = [hist EXCEPT ![w] = side[name[w]]]
    /\ Goto(w, "compare")
    /\ UNCHANGED <<disk, import, mutex, phase, name, seen, want, file>>

\* Mutant: only the revision is compared, not the ETag.
UnchangedRevision(w) == Assembled(w, hist[w]).revision = seen[w].revision

\* current.Revision == input.Revision && current.ETag == input.ETag
UnchangedSince(w) == Assembled(w, hist[w]) = seen[w]

Accept(w) ==
    /\ pc[w] = "compare"
    /\ UnchangedSince(w)
    /\ Goto(w, "write")
    /\ file' = [file EXCEPT ![w] = NoFile]
    /\ UNCHANGED <<disk, import, mutex, phase, name, seen, want, hist>>

\* Mutant: the mutex is not released on the way out.
ConflictLocked(w) ==
    /\ pc[w] = "compare"
    /\ ~UnchangedSince(w)
    /\ Idle(w)
    /\ UNCHANGED <<disk, import, mutex>>

\* 409
Conflict(w) ==
    /\ pc[w] = "compare"
    /\ ~UnchangedSince(w)
    /\ Idle(w)
    /\ Unlock(w)
    /\ UNCHANGED <<disk, import>>

\* atomicWrite(path): the indented manifest goes to the directory it is for.
Write(w) ==
    LET n == name[w] IN
    /\ pc[w] = "write"
    /\ pub' = IF want[w].enabled THEN AtomicWrite(pub, n, want[w].content) ELSE pub
    /\ off' = IF want[w].enabled THEN off ELSE AtomicWrite(off, n, want[w].content)
    /\ Goto(w, "remove")
    /\ UNCHANGED <<side, marker, import, mutex, phase, name, seen, want, file, hist>>

\* Mutant: the file in the other directory stays.
RemoveNothing(w) ==
    /\ pc[w] = "remove"
    /\ Goto(w, "record")
    /\ UNCHANGED <<disk, import, mutex, phase, name, seen, want, file, hist>>

\* Remove(other)
Remove(w) ==
    LET n == name[w] IN
    /\ pc[w] = "remove"
    /\ off' = IF want[w].enabled THEN [off EXCEPT ![n] = Absent] ELSE off
    /\ pub' = IF want[w].enabled THEN pub ELSE [pub EXCEPT ![n] = Absent]
    /\ Goto(w, "record")
    /\ UNCHANGED <<side, marker, import, mutex, phase, name, seen, want, file, hist>>

NewEntry(w) == Shown(want[w], Revision(hist[w]) + 1)

\* atomicWrite of the sidecar: the history as read, and the new entry.
Record(w) ==
    /\ pc[w] = "record"
    /\ side' = AtomicWrite(side, name[w], Append(hist[w], NewEntry(w)))
    /\ phase' = [phase EXCEPT ![w] = "confirm"]
    /\ Goto(w, "readPub")
    /\ UNCHANGED <<pub, off, marker, import, mutex, name, seen, want, file, hist>>

\* The feed is read back, the mutex released and the answer sent.  The editor
\* may go on from it.
ReadSideConfirm(w) ==
    /\ pc[w] = "readSide" /\ phase[w] = "confirm"
    /\ seen' = [seen EXCEPT ![w] = Assembled(w, side[name[w]])]
    /\ want' = [want EXCEPT ![w] = NoFile]
    /\ file' = [file EXCEPT ![w] = NoFile]
    /\ hist' = [hist EXCEPT ![w] = << >>]
    /\ phase' = [phase EXCEPT ![w] = "load"]
    /\ Goto(w, "edit")
    /\ Unlock(w)
    /\ UNCHANGED <<disk, import, name>>

\* Any I/O error, an unreadable file, or an editor who gives up.  Waiting for
\* the mutex cannot fail and cannot be cancelled.
Fail(w) ==
    /\ pc[w] \notin {"idle", "lock"}
    /\ Idle(w)
    /\ Unlock(w)
    /\ UNCHANGED <<disk, import>>

-----------------------------------------------------------------------------
\* A file is put or removed by hand, coordinated with saves and starts.
Coordinated == mutex = None /\ server # "importing"

Publish(n, content) ==
    /\ Coordinated
    /\ pub' = [pub EXCEPT ![n] = content]
    /\ UNCHANGED <<off, side, marker, import, mutex, worker>>

Unpublish(n) ==
    /\ Coordinated
    /\ pub' = [pub EXCEPT ![n] = Absent]
    /\ UNCHANGED <<off, side, marker, import, mutex, worker>>

\* The steps of a request that its goroutine takes by itself.
Advance(w) ==
    \/ ReadPub(w) \/ ReadOff(w)
    \/ ReadSideLoad(w) \/ ReadSideCheck(w) \/ ReadSideConfirm(w)
    \/ Accept(w) \/ Conflict(w)
    \/ Write(w) \/ Remove(w) \/ Record(w)

Next ==
    \/ Start \/ ImportFile \/ ImportDone \/ Crash
    \/ \E n \in Names :
          \/ ImportSidecar(n)
          \/ Unpublish(n)
          \/ \E c \in Contents : Publish(n, c)
          \/ \E w \in Workers : Load(w, n)
    \/ \E w \in Workers :
          \/ \E m \in Manifests, b \in BOOLEAN : Submit(w, m, b)
          \/ Lock(w) \/ Advance(w) \/ Fail(w)

Spec == Init /\ [][Next]_feedVars

\* A goroutine that can go on does, or fails; sync.Mutex hands the mutex to a
\* waiter that has waited long enough (its starvation mode), whoever else asks.
Fairness ==
    \A w \in Workers :
        /\ WF_feedVars(Advance(w) \/ (pc[w] # "edit" /\ Fail(w)))
        /\ SF_feedVars(Lock(w))

FairSpec == Spec /\ Fairness

-----------------------------------------------------------------------------
(* Properties *)

\* A save changes what a feed shows in one step, from what its editor has
\* loaded to what its editor submitted.  So nobody's work is overwritten
\* unseen (README: "Stale editors receive 409"), not even what an interrupted
\* save or a manual replacement left behind, and clients never meet a gap or
\* a third state, whatever order the writes come in and wherever they stop.
SwitchesOnce ==
    [][\A n \in Names :
          File(n)' # File(n) =>
              \/ pc' = pc   \* by hand, or the import
              \/ \E w \in Workers :
                    /\ name[w] = n /\ pc'[w] # pc[w]
                    /\ Current(n) = seen[w]
                    /\ File(n)' = want[w]]_feedVars

\* Histories only grow, and a save adds one entry with the next number:
\* concurrent saves and restarts neither lose an entry nor give a number twice.
HistoryOnlyGrows ==
    [][\A n \in Names :
          side'[n] # side[n] =>
              \/ side[n] = << >> /\ side'[n] = Legacy[n]
              \/ /\ side'[n] = Append(side[n], Last(side'[n]))
                 /\ Last(side'[n]).revision = Revision(side[n]) + 1]_feedVars

\* The answer to a save shows what was submitted, under the number that the
\* history gives it: no other save has come between.
SavedMeansSaved ==
    [][\A w \in Workers :
          phase[w] = "confirm" /\ pc'[w] = "edit" =>
              /\ seen'[w] = NewEntry(w)
              /\ Last(side[name[w]]) = NewEntry(w)]_feedVars

\* Once the marker is there, every feed of SQLite was exported with all of
\* its history, however often the first start was interrupted.
ExportComplete ==
    marker => \A n \in Names :
        /\ Len(Legacy[n]) <= Len(side[n])
        /\ \A i \in 1 .. Len(Legacy[n]) : side[n][i] = Legacy[n][i]

\* README: "Existing files are never overwritten"; "deleting an exported file
\* will not resurrect it".  A start changes what a feed shows only where there
\* was no file, and not at all once the marker is there.
ImportKeepsFiles ==
    [][\A n \in Names :
          File(n)' # File(n) /\ server = "importing" => File(n) = NoFile /\ ~marker]_feedVars

\* Every submitted save is answered: no error path keeps the mutex.
EverySaveAnswers ==
    \A w \in Workers : pc[w] = "lock" ~> pc[w] \in {"idle", "edit"}

-----------------------------------------------------------------------------
(* What the documentation says and the code does not do *)

\* README: "Admin maintains Desktop v1 manifests in the same directory."  A
\* save that ran to its end leaves a feed that Admin can read again.
SavedIsReadable ==
    \A w \in Workers : phase[w] = "confirm" => File(name[w]).content \in Readable

\* ListUpdateFeeds on a directory at rest: one file that GetUpdateFeed cannot
\* read fails the whole list.
ListUpdateFeeds ==
    LET present == {n \in Names : File(n) # NoFile}
    IN  IF \E n \in present : File(n).content \notin Readable THEN {} ELSE present

\* README: "Directly added Desktop manifests appear in Admin."
ManifestsAppearInAdmin ==
    server = "serving" =>
        \A n \in Names : pub[n] \in Readable => n \in ListUpdateFeeds
=============================================================================
