-------------------------- MODULE InstallersProofs --------------------------
(***************************************************************************)
(* Proofs about Installers, for any number of runs, paths and builds.      *)
(*                                                                         *)
(* Progress: what every run has, overlapped or not.  Undisturbed: what a   *)
(* run that no other overlapped knows of its target at each step, because  *)
(* nobody else is on its path.                                             *)
(***************************************************************************)
EXTENDS Installers, TLAPS

ProgressAt(p) ==
    /\ pc[p] = "idle" => opts[p] = NoOptions
    /\ pc[p] # "idle" => opts[p] \in Options /\ source[p] \in Contents /\ digest[p] \in Contents
    /\ pc[p] \in {"chmod", "stat", "hash", "upsert"} => target[Path(p)] \in Contents
    /\ pc[p] \in {"hash", "upsert"} => size[p] \in Contents
    /\ pc[p] = "upsert" => sha[p] \in Contents

Progress == \A p \in Publishers : ProgressAt(p)

UndisturbedAt(p) ==
    alone[p] =>
        /\ pc[p] # "idle"
        /\ \A q \in Publishers \ {p} : opts[q].path # Path(p)
        /\ pc[p] = "copy" => target[Path(p)] = Absent \/ opts[p].replace
        /\ pc[p] \in {"stat", "hash", "upsert"} => public[Path(p)]
        /\ pc[p] \in {"hash", "upsert"} => size[p] = target[Path(p)]
        /\ pc[p] = "upsert" => sha[p] = target[Path(p)]

Undisturbed == \A p \in Publishers : UndisturbedAt(p)

InstallersInv == InstallersTypeOK /\ Progress /\ Undisturbed

-----------------------------------------------------------------------------
\* The path of a run is a path.
LEMMA PathKnown ==
    ASSUME InstallersInv, NEW p \in Publishers, pc[p] # "idle"
    PROVE  /\ Path(p) \in Paths /\ opts[p] \in Options
           /\ opts[p].key \in Keys /\ opts[p].replace \in BOOLEAN
           /\ source[p] \in Contents /\ digest[p] \in Contents
BY DEF InstallersInv, Progress, ProgressAt, Path, Options

\* A step of p that writes to no file but that of its path: it is enough to
\* look at p.
Only(p) ==
    /\ \A q \in Publishers \ {p} :
          /\ pc'[q] = pc[q] /\ opts'[q] = opts[q] /\ source'[q] = source[q]
          /\ digest'[q] = digest[q] /\ size'[q] = size[q] /\ sha'[q] = sha[q]
          /\ alone'[q] = alone[q]
    /\ opts'[p] \in {opts[p], NoOptions}
    /\ \A f \in Paths : f # Path(p) => target'[f] = target[f] /\ public'[f] = public[f]
    /\ \A f \in Paths : target[f] \in Contents => target'[f] \in Contents

LEMMA OnlyFrame ==
    ASSUME InstallersInv, NEW p \in Publishers, pc[p] # "idle", Only(p),
           InstallersTypeOK', ProgressAt(p)', UndisturbedAt(p)'
    PROVE  InstallersInv'
<1>1. ASSUME NEW q \in Publishers \ {p}
      PROVE  ProgressAt(q)' /\ UndisturbedAt(q)'
  <2>1. ProgressAt(q) /\ UndisturbedAt(q)
    BY DEF InstallersInv, Progress, Undisturbed
  <2>2. Path(q)' = Path(q) /\ (pc[q] # "idle" => Path(q) \in Paths)
    BY PathKnown DEF Path, Only
  <2>3. ProgressAt(q)'
    BY <2>1, <2>2 DEF ProgressAt, Only
  <2>4. alone[q] => Path(p) # Path(q) /\ Path(q) \in Paths /\ NoOptions.path # Path(q)
    BY <2>1, <2>2, InstallersAssumption DEF UndisturbedAt, Path, NoOptions
  <2>5. UndisturbedAt(q)'
    <3>1. SUFFICES ASSUME alone[q]
                   PROVE  UndisturbedAt(q)'
      BY DEF UndisturbedAt, Only
    <3>2. target'[Path(q)] = target[Path(q)] /\ public'[Path(q)] = public[Path(q)]
      BY <2>4, <3>1 DEF Only
    <3>3. \A r \in Publishers \ {q} : opts'[r].path # Path(q)
      BY <2>1, <2>4, <3>1 DEF UndisturbedAt, Only, Path
    <3> QED
      BY <2>1, <2>2, <3>1, <3>2, <3>3 DEF UndisturbedAt, Only
  <2> QED
    BY <2>3, <2>5
<1> QED
  BY <1>1 DEF InstallersInv, Progress, Undisturbed

\* A run begins; those on its path are no longer alone.
LEMMA BeginInv ==
    ASSUME InstallersInv, NEW p \in Publishers, NEW o \in Options, NEW c \in Contents,
           Begin(p, o, c)
    PROVE  InstallersInv'
<1> DEFINE others == {q \in Publishers \ {p} : opts[q].path = o.path}
<1>1. /\ pc[p] = "idle" /\ pc' = [pc EXCEPT ![p] = "check"]
      /\ opts' = [opts EXCEPT ![p] = o]
      /\ source' = [source EXCEPT ![p] = c] /\ digest' = [digest EXCEPT ![p] = c]
      /\ alone' = [q \in Publishers |-> IF q = p THEN others = {}
                                        ELSE alone[q] /\ q \notin others]
      /\ UNCHANGED <<target, public, rows, size, sha>>
  BY DEF Begin, Goto
<1>2. InstallersTypeOK
  BY DEF InstallersInv
<1>3. InstallersTypeOK'
  <2>1. alone' \in [Publishers -> BOOLEAN]
    BY <1>1, <1>2 DEF InstallersTypeOK
  <2> QED
    BY <1>1, <1>2, <2>1 DEF InstallersTypeOK, Labels
<1>4. ASSUME NEW q \in Publishers
      PROVE  ProgressAt(q)'
  BY <1>1, <1>2 DEF InstallersInv, InstallersTypeOK, Progress, ProgressAt, Path
<1>5. ASSUME NEW q \in Publishers
      PROVE  UndisturbedAt(q)'
  <2>1. CASE q = p
    BY <1>1, <1>2, <2>1 DEF InstallersTypeOK, UndisturbedAt, Path
  <2>2. CASE q # p
    <3>1. SUFFICES ASSUME alone'[q]
                   PROVE  UndisturbedAt(q)'
      BY DEF UndisturbedAt
    <3>2. alone[q] /\ opts[q].path # o.path /\ UndisturbedAt(q)
      BY <1>1, <2>2, <3>1 DEF InstallersInv, Undisturbed
    <3>3. \A r \in Publishers \ {q} : opts'[r].path # opts'[q].path
      BY <1>1, <1>2, <2>2, <3>2 DEF InstallersTypeOK, UndisturbedAt, Path
    <3>4. pc'[q] = pc[q] /\ opts'[q] = opts[q]
      BY <1>1, <1>2, <2>2 DEF InstallersTypeOK
    <3> QED
      BY <1>1, <3>2, <3>3, <3>4 DEF UndisturbedAt, Path
  <2> QED
    BY <2>1, <2>2
<1> QED
  BY <1>3, <1>4, <1>5 DEF InstallersInv, Progress, Undisturbed

\* The comparison, the mode and the measurements.
LEMMA LookInv ==
    ASSUME InstallersInv, NEW p \in Publishers,
           \/ Check(p) \/ Stat(p) \/ Hash(p) \/ \E c \in Contents : Rebuild(p, c)
    PROVE  InstallersInv'
<1>1. pc[p] # "idle"
  BY DEF Check, Stat, Hash, Rebuild
<1>2. InstallersTypeOK /\ ProgressAt(p) /\ UndisturbedAt(p) /\ Path(p) \in Paths
  BY <1>1, PathKnown DEF InstallersInv, Progress, Undisturbed
<1>3. UNCHANGED <<target, public, rows, opts, digest, alone>> /\ Path(p)' = Path(p)
  BY DEF Check, Stat, Hash, Rebuild, Path
<1>4. InstallersTypeOK'
  BY <1>2 DEF InstallersTypeOK, ProgressAt, Check, Stat, Hash, Rebuild, Goto, Labels
<1>5. Only(p)
  BY <1>2, <1>3 DEF InstallersTypeOK, Only, Check, Stat, Hash, Rebuild, Goto
<1>6. ProgressAt(p)'
  BY <1>2, <1>3, PathKnown
     DEF InstallersTypeOK, ProgressAt, Check, Stat, Hash, Rebuild, Goto
<1>7. UndisturbedAt(p)'
  BY <1>2, <1>3, InstallersAssumption
     DEF InstallersTypeOK, ProgressAt, UndisturbedAt, Check, Stat, Hash, Rebuild, Goto
<1> QED
  BY <1>1, <1>4, <1>5, <1>6, <1>7, OnlyFrame

\* The file is put in place, then made readable.
LEMMA PlaceInv ==
    ASSUME InstallersInv, NEW p \in Publishers, CopyFileAtomic(p) \/ Chmod(p)
    PROVE  InstallersInv'
<1>1. pc[p] # "idle"
  BY DEF CopyFileAtomic, Chmod
<1>2. /\ InstallersTypeOK /\ ProgressAt(p) /\ UndisturbedAt(p)
      /\ Path(p) \in Paths /\ source[p] \in Contents
  BY <1>1, PathKnown DEF InstallersInv, Progress, Undisturbed
<1>3. UNCHANGED <<rows, opts, source, digest, size, sha, alone>> /\ Path(p)' = Path(p)
  BY DEF CopyFileAtomic, Chmod, Path
<1>4. InstallersTypeOK'
  BY <1>2, <1>3 DEF InstallersTypeOK, CopyFileAtomic, Chmod, Goto, Labels
<1>5. Only(p)
  BY <1>2, <1>3 DEF InstallersTypeOK, Only, CopyFileAtomic, Chmod, Goto
<1>6. ProgressAt(p)' /\ UndisturbedAt(p)'
  BY <1>2, <1>3
     DEF InstallersTypeOK, ProgressAt, UndisturbedAt, CopyFileAtomic, Chmod, Goto
<1> QED
  BY <1>1, <1>4, <1>5, <1>6, OnlyFrame

\* A run is over, with or without a row.
LEMMA ExitInv ==
    ASSUME InstallersInv, NEW p \in Publishers, Refuse(p) \/ UpsertInstaller(p) \/ Fail(p)
    PROVE  InstallersInv'
<1>1. pc[p] # "idle" /\ Exit(p) /\ UNCHANGED <<target, public>>
  BY DEF Refuse, UpsertInstaller, Fail
<1>2. InstallersTypeOK /\ ProgressAt(p) /\ Path(p) \in Paths /\ opts[p].key \in Keys
  BY <1>1, PathKnown DEF InstallersInv, Progress
<1>3. rows' \in [Keys -> Row \cup {NoRow}]
  BY <1>2 DEF InstallersTypeOK, ProgressAt, Refuse, UpsertInstaller, Fail, Row
<1>4. InstallersTypeOK'
  BY <1>1, <1>2, <1>3 DEF InstallersTypeOK, Exit, Goto, Labels
<1>5. Only(p)
  BY <1>1, <1>2 DEF InstallersTypeOK, Only, Exit, Goto
<1>6. ProgressAt(p)' /\ UndisturbedAt(p)'
  BY <1>1, <1>2 DEF InstallersTypeOK, ProgressAt, UndisturbedAt, Exit, Goto
<1> QED
  BY <1>1, <1>4, <1>5, <1>6, OnlyFrame

\* However runs overlap, fail and are repeated, one that was alone on its path
\* knows its file.
THEOREM InstallersInvariant == Spec => []InstallersInv
<1>1. Init => InstallersInv
  BY DEF Init, InstallersInv, InstallersTypeOK, Progress, ProgressAt, Undisturbed, UndisturbedAt,
         Labels
<1>2. InstallersInv /\ [Next]_installerVars => InstallersInv'
  <2> SUFFICES ASSUME InstallersInv, [Next]_installerVars
               PROVE  InstallersInv'
    OBVIOUS
  <2>1. CASE Next
    BY <2>1, BeginInv, LookInv, PlaceInv, ExitInv DEF Next
  <2>2. CASE UNCHANGED installerVars
    BY <2>2 DEF InstallersInv, InstallersTypeOK, Progress, ProgressAt, Undisturbed, UndisturbedAt,
                Path, installerVars, run
  <2> QED
    BY <2>1, <2>2
<1> QED
  BY <1>1, <1>2, PTL DEF Spec

\* Which run a step belongs to.
LEMMA StepOf ==
    ASSUME InstallersInv, [Next]_installerVars, NEW p \in Publishers, pc'[p] # pc[p]
    PROVE  \/ \E o \in Options, c \in Contents : Begin(p, o, c)
           \/ Check(p) \/ Refuse(p) \/ CopyFileAtomic(p) \/ Chmod(p)
           \/ Stat(p) \/ Hash(p) \/ UpsertInstaller(p) \/ Fail(p)
<1>1. Next /\ pc \in [Publishers -> Labels]
  BY DEF InstallersInv, InstallersTypeOK, installerVars, run
<1> QED
  BY <1>1 DEF Next, Begin, Check, Refuse, CopyFileAtomic, Chmod, Stat, Hash, UpsertInstaller, Fail,
              Rebuild, Exit, Goto

\* UpsertFile: the row of a run that was alone on its path is true of a file
\* the web server can read, whatever stopped before it and whatever became of
\* its source.
THEOREM AloneAlwaysDescribes == Spec => AloneDescribesFile
<1>1. ASSUME InstallersInv, [Next]_installerVars, NEW p \in Publishers,
             alone[p], rows' # rows, pc'[p] # pc[p]
      PROVE  /\ target[Path(p)] # Absent
             /\ rows'[opts[p].key] =
                   [path |-> Path(p), size |-> target[Path(p)], sha |-> target[Path(p)]]
             /\ public[Path(p)]
  <2>1. UpsertInstaller(p)
    BY <1>1, StepOf DEF Begin, Check, Refuse, CopyFileAtomic, Chmod, Stat, Hash, Fail
  <2>2. UndisturbedAt(p) /\ rows \in [Keys -> Row \cup {NoRow}] /\ opts[p].key \in Keys
    BY <1>1, <2>1, PathKnown DEF InstallersInv, InstallersTypeOK, Undisturbed, UpsertInstaller
  <2>3. target[Path(p)] # Absent
    BY <1>1, <2>1, InstallersAssumption DEF InstallersInv, Progress, ProgressAt, UpsertInstaller
  <2> QED
    BY <1>1, <2>1, <2>2, <2>3 DEF UndisturbedAt, UpsertInstaller
<1>2. InstallersInv /\ [Next]_installerVars =>
         [\A p \in Publishers :
             alone[p] /\ rows' # rows /\ pc'[p] # pc[p] =>
                 LET f == Path(p) IN
                 /\ target[f] # Absent
                 /\ rows'[opts[p].key] = [path |-> f, size |-> target[f], sha |-> target[f]]
                 /\ public[f]]_installerVars
  BY <1>1
<1> QED
  BY <1>2, InstallersInvariant, PTL DEF Spec, AloneDescribesFile

\* UpsertFile without -replace: a run that was alone on its path changes no
\* existing file.
THEOREM AloneAlwaysKeeps == Spec => AloneKeepsFile
<1>1. ASSUME InstallersInv, [Next]_installerVars, NEW p \in Publishers,
             alone[p], ~opts[p].replace, pc'[p] # pc[p],
             NEW f \in Paths, target[f] # Absent
      PROVE  target'[f] = target[f]
  <2>1. CASE CopyFileAtomic(p)
    <3>1. f # Path(p)
      BY <1>1, <2>1 DEF InstallersInv, Undisturbed, UndisturbedAt, CopyFileAtomic
    <3> QED
      BY <1>1, <2>1, <3>1 DEF InstallersInv, InstallersTypeOK, CopyFileAtomic
  <2>2. CASE ~CopyFileAtomic(p)
    BY <1>1, <2>2, StepOf DEF Begin, Check, Refuse, Chmod, Stat, Hash, UpsertInstaller, Fail
  <2> QED
    BY <2>1, <2>2
<1>2. InstallersInv /\ [Next]_installerVars =>
         [\A p \in Publishers :
             alone[p] /\ ~opts[p].replace /\ pc'[p] # pc[p] =>
                 \A f \in Paths : target[f] # Absent => target'[f] = target[f]]_installerVars
  BY <1>1
<1> QED
  BY <1>2, InstallersInvariant, PTL DEF Spec, AloneKeepsFile

\* Files, rows and runs keep their types.
THEOREM InstallersTypeCorrect == Spec => []InstallersTypeOK
<1>1. InstallersInv => InstallersTypeOK
  BY DEF InstallersInv
<1> QED
  BY <1>1, InstallersInvariant, PTL
=============================================================================
