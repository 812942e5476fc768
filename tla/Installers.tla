------------------------------ MODULE Installers -----------------------------
(***************************************************************************)
(* Publishing desktop installers: releasectl upsert (cmd/releasectl, the   *)
(* UpsertFile of internal/release/upsert.go) copies a build into the       *)
(* release root and lists it in the SQLite catalogue, whose rows the       *)
(* server shows to the download page.  Several runs of releasectl may      *)
(* overlap: nothing but the row is locked.  A run may stop between any two *)
(* steps, by an error or killed, and is then started again by hand; a      *)
(* build may be replaced while it is being published.                      *)
(*                                                                         *)
(* One step is one operation on the target file.  copyFileAtomic replaces  *)
(* it with a rename, so it is old or new, but new means mode 0600 until    *)
(* the Chmod.  The path depends on version and file name, not on the key.  *)
(***************************************************************************)
EXTENDS Naturals, FiniteSets

CONSTANTS
    Keys,        \* "mac", "windows"
    Paths,       \* version and canonical file name
    Contents,    \* builds: equal exactly when size and SHA-256 are
    Publishers,  \* runs of releasectl upsert
    Absent,      \* no file
    None         \* no key, no path, no content

ASSUME InstallersAssumption ==
    /\ Absent \notin Contents
    /\ None \notin Keys \cup Paths \cup Contents

VARIABLES
    target,    \* path: the file in the release root
    public,    \* path: its mode lets the web server read it
    rows,      \* key: the row of table installer
    pc,        \* run: its next step
    opts,      \* run: its flags
    source,    \* run: what the source file holds now
    digest,    \* run: the source as hashed when it started
    size,      \* run: the target as measured by Stat
    sha,       \* run: the target as hashed
    alone      \* history: no other run was on the same path meanwhile

run == <<pc, opts, source, digest, size, sha>>
installerVars == <<target, public, rows, run, alone>>

Options == [key: Keys, path: Paths, replace: BOOLEAN]
NoOptions == [key |-> None, path |-> None, replace |-> FALSE]

\* SIZE_BYTES_ and SHA256_, each as the build it was taken from.
Row == [path: Paths, size: Contents, sha: Contents]
NoRow == [path |-> None, size |-> None, sha |-> None]

Labels == {"idle", "check", "copy", "chmod", "stat", "hash", "upsert"}

InstallersTypeOK ==
    /\ target \in [Paths -> Contents \cup {Absent}]
    /\ public \in [Paths -> BOOLEAN]
    /\ rows \in [Keys -> Row \cup {NoRow}]
    /\ pc \in [Publishers -> Labels]
    /\ opts \in [Publishers -> Options \cup {NoOptions}]
    /\ source \in [Publishers -> Contents \cup {None}]
    /\ digest \in [Publishers -> Contents \cup {None}]
    /\ size \in [Publishers -> Contents \cup {None}]
    /\ sha \in [Publishers -> Contents \cup {None}]
    /\ alone \in [Publishers -> BOOLEAN]

Init ==
    /\ target = [f \in Paths |-> Absent]
    /\ public = [f \in Paths |-> FALSE]
    /\ rows = [k \in Keys |-> NoRow]
    /\ pc = [p \in Publishers |-> "idle"]
    /\ opts = [p \in Publishers |-> NoOptions]
    /\ source = [p \in Publishers |-> None]
    /\ digest = [p \in Publishers |-> None]
    /\ size = [p \in Publishers |-> None]
    /\ sha = [p \in Publishers |-> None]
    /\ alone = [p \in Publishers |-> FALSE]

Goto(p, label) == pc' = [pc EXCEPT ![p] = label]

\* The process exits.
Exit(p) ==
    /\ Goto(p, "idle")
    /\ opts' = [opts EXCEPT ![p] = NoOptions]
    /\ source' = [source EXCEPT ![p] = None]
    /\ digest' = [digest EXCEPT ![p] = None]
    /\ size' = [size EXCEPT ![p] = None]
    /\ sha' = [sha EXCEPT ![p] = None]
    /\ alone' = [alone EXCEPT ![p] = FALSE]

-----------------------------------------------------------------------------
(* UpsertFile *)

\* Valid flags, an allowed key, a source that is a file; the source is hashed.
Begin(p, o, c) ==
    LET others == {q \in Publishers \ {p} : opts[q].path = o.path} IN
    /\ pc[p] = "idle"
    /\ opts' = [opts EXCEPT ![p] = o]
    /\ source' = [source EXCEPT ![p] = c]
    /\ digest' = [digest EXCEPT ![p] = c]
    /\ alone' = [q \in Publishers |-> IF q = p THEN others = {}
                                      ELSE alone[q] /\ q \notin others]
    /\ Goto(p, "check")
    /\ UNCHANGED <<target, public, rows, size, sha>>

Path(p) == opts[p].path

\* Mutant: an existing file is never an obstacle.
CheckNothing(p) ==
    /\ pc[p] = "check"
    /\ Goto(p, IF target[Path(p)] = digest[p] THEN "chmod" ELSE "copy")
    /\ UNCHANGED <<target, public, rows, opts, source, digest, size, sha, alone>>

\* No file, an equal file, or a different one that may be replaced.
Check(p) ==
    /\ pc[p] = "check"
    /\ target[Path(p)] \in {Absent, digest[p]} \/ opts[p].replace
    /\ Goto(p, IF target[Path(p)] = digest[p] THEN "chmod" ELSE "copy")
    /\ UNCHANGED <<target, public, rows, opts, source, digest, size, sha, alone>>

\* "target file already exists with different content"
Refuse(p) ==
    /\ pc[p] = "check"
    /\ target[Path(p)] \notin {Absent, digest[p]}
    /\ ~opts[p].replace
    /\ Exit(p)
    /\ UNCHANGED <<target, public, rows>>

\* copyFileAtomic: the source as it is now, in a file of CreateTemp, renamed.
CopyFileAtomic(p) ==
    /\ pc[p] = "copy"
    /\ target' = [target EXCEPT ![Path(p)] = source[p]]
    /\ public' = [public EXCEPT ![Path(p)] = FALSE]
    /\ Goto(p, "chmod")
    /\ UNCHANGED <<rows, opts, source, digest, size, sha, alone>>

\* Chmod, Stat and Hash fail where there is no file (then Fail is the step).
Chmod(p) ==
    /\ pc[p] = "chmod"
    /\ target[Path(p)] # Absent
    /\ public' = [public EXCEPT ![Path(p)] = TRUE]
    /\ Goto(p, "stat")
    /\ UNCHANGED <<target, rows, opts, source, digest, size, sha, alone>>

Stat(p) ==
    /\ pc[p] = "stat"
    /\ target[Path(p)] # Absent
    /\ size' = [size EXCEPT ![p] = target[Path(p)]]
    /\ Goto(p, "hash")
    /\ UNCHANGED <<target, public, rows, opts, source, digest, sha, alone>>

\* Mutant: the digest of the source stands for that of the target.
HashSource(p) ==
    /\ pc[p] = "hash"
    /\ target[Path(p)] # Absent
    /\ sha' = [sha EXCEPT ![p] = digest[p]]
    /\ Goto(p, "upsert")
    /\ UNCHANGED <<target, public, rows, opts, source, digest, size, alone>>

\* fileSHA256(targetPath)
Hash(p) ==
    /\ pc[p] = "hash"
    /\ target[Path(p)] # Absent
    /\ sha' = [sha EXCEPT ![p] = target[Path(p)]]
    /\ Goto(p, "upsert")
    /\ UNCHANGED <<target, public, rows, opts, source, digest, size, alone>>

\* EnsureSchema and UpsertInstaller: one statement inserts or replaces the row.
UpsertInstaller(p) ==
    /\ pc[p] = "upsert"
    /\ rows' = [rows EXCEPT ![opts[p].key] =
                   [path |-> Path(p), size |-> size[p], sha |-> sha[p]]]
    /\ Exit(p)
    /\ UNCHANGED <<target, public>>

\* An I/O or database error, the 30 s of the context, a kill: what was done stays.
Fail(p) ==
    /\ pc[p] # "idle"
    /\ Exit(p)
    /\ UNCHANGED <<target, public, rows>>

\* The build is made anew under the name being published.
Rebuild(p, c) ==
    /\ pc[p] \in {"check", "copy"}
    /\ source' = [source EXCEPT ![p] = c]
    /\ UNCHANGED <<target, public, rows, pc, opts, digest, size, sha, alone>>

Next ==
    \E p \in Publishers :
        \/ \E o \in Options, c \in Contents : Begin(p, o, c)
        \/ Check(p) \/ Refuse(p) \/ CopyFileAtomic(p) \/ Chmod(p)
        \/ Stat(p) \/ Hash(p) \/ UpsertInstaller(p)
        \/ Fail(p)
        \/ \E c \in Contents : Rebuild(p, c)

Spec == Init /\ [][Next]_installerVars

-----------------------------------------------------------------------------
(* Properties *)

\* A run that no other run on the same path overlapped lists the file as it
\* is: it is there, size and digest are its own, and the web server can read it.  So
\* an interrupted publication is repaired by running the command again,
\* wherever it stopped, and a rebuild in between cannot make the row lie.
AloneDescribesFile ==
    [][\A p \in Publishers :
          alone[p] /\ rows' # rows /\ pc'[p] # pc[p] =>
              LET f == Path(p) IN
              /\ target[f] # Absent
              /\ rows'[opts[p].key] = [path |-> f, size |-> target[f], sha |-> target[f]]
              /\ public[f]]_installerVars

\* Without -replace a run that no other overlapped never changes an existing
\* file, although the source it compared may have changed since.
AloneKeepsFile ==
    [][\A p \in Publishers :
          alone[p] /\ ~opts[p].replace /\ pc'[p] # pc[p] =>
              \A f \in Paths : target[f] # Absent => target'[f] = target[f]]_installerVars
=============================================================================
