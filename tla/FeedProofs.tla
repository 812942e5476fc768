----------------------------- MODULE FeedProofs -----------------------------
(***************************************************************************)
(* Proofs about FeedDirectory, for any feeds, contents, editors and legacy *)
(* data.                                                                   *)
(*                                                                         *)
(* Control: a worker is in its save exactly while it holds the mutex.      *)
(* View: what a worker in its save has read is still what the directory    *)
(* holds, and how far it has got tells what the files are.  Export: how    *)
(* far the import has got tells which sidecars hold the legacy history.    *)
(*                                                                         *)
(* The last part proves that the directory implements FeedStore, one lemma *)
(* per action: which step of the store it is, or that the store does not   *)
(* see it.                                                                 *)
(***************************************************************************)
EXTENDS FeedRefinement, SequenceTheorems, TLAPS

\* What an editor may submit.
Submitted == [content: Manifests, enabled: BOOLEAN]

Reads == {"readPub", "readOff", "readSide"}

ControlAt(w) ==
    /\ phase[w] # "load" <=> mutex = w
    /\ pc[w] # "idle" => name[w] \in Names /\ server = "serving"
    /\ phase[w] = "load" => pc[w] \in Reads \cup {"idle", "edit", "lock"}
    /\ phase[w] = "check" => pc[w] \in Reads \cup {"compare", "write", "remove", "record"}
    /\ phase[w] = "confirm" => pc[w] \in Reads
    /\ pc[w] = "lock" \/ phase[w] # "load" => want[w] \in Submitted

Control == \A w \in Workers : ControlAt(w)

\* Before the sidecar is recorded.
CheckView(w, n) ==
    /\ pc[w] = "readOff" => pub[n] = Absent
    /\ pc[w] \in {"readSide", "compare"} => file[w] = File(n)
    /\ pc[w] \in {"compare", "write", "remove", "record"} => hist[w] = side[n]
    /\ pc[w] = "write" => Current(n) = seen[w]
    /\ pc[w] = "remove" =>
          \/ want[w].enabled /\ pub[n] = want[w].content
          \/ /\ ~want[w].enabled /\ off[n] = want[w].content
             /\ pub[n] = Absent \/ Current(n) = seen[w]
    /\ pc[w] = "record" => File(n) = want[w]

\* After it.
ConfirmView(w, n) ==
    /\ File(n) = want[w]
    /\ side[n] = Append(hist[w], NewEntry(w))
    /\ pc[w] = "readOff" => pub[n] = Absent
    /\ pc[w] = "readSide" => file[w] = File(n)

ViewAt(w) ==
    /\ phase[w] = "check" => CheckView(w, name[w])
    /\ phase[w] = "confirm" => ConfirmView(w, name[w])

View == \A w \in Workers : ViewAt(w)

Exported(n) ==
    /\ Len(Legacy[n]) <= Len(side[n])
    /\ \A i \in 1 .. Len(Legacy[n]) : side[n][i] = Legacy[n][i]

Export ==
    /\ server = "serving" => marker
    /\ marker => server # "importing" /\ \A n \in Names : Exported(n)
    /\ ~marker => \A n \in Names : side[n] \in {<< >>, Legacy[n]}
    /\ todo \subseteq LegacyNames
    /\ server # "importing" => todo = {}
    /\ server = "importing" =>
          /\ \A n \in LegacyNames \ todo : Exported(n)
          /\ exporting # None => Exported(exporting)

FeedInv == FeedTypeOK /\ Control /\ View /\ Export

-----------------------------------------------------------------------------
\* What a feed shows is typed.
LEMMA ShownTyped ==
    ASSUME FeedTypeOK, NEW n \in Names
    PROVE  File(n) \in Found /\ Current(n) \in Snapshot /\ Revision(side[n]) \in Nat
<1>1. File(n) \in Found
  BY DEF FeedTypeOK, File, Found
<1>2. Revision(side[n]) \in Nat
  <2>1. side[n] \in Seq(Entry)
    BY DEF FeedTypeOK
  <2>2. CASE side[n] = << >>
    BY <2>2 DEF Revision
  <2>3. CASE side[n] # << >>
    <3>1. Len(side[n]) \in DOMAIN side[n]
      BY <2>1, <2>3, EmptySeq, LenProperties
    <3>2. side[n][Len(side[n])] \in Entry
      BY <2>1, <3>1, ElementOfSeq, LenProperties
    <3> QED
      BY <2>3, <3>2 DEF Revision, Last, Entry
  <2> QED
    BY <2>2, <2>3
<1> QED
  BY <1>1, <1>2 DEF Current, NotFound, Shown, NoFile, Found, Snapshot

\* Only the worker with the mutex is in a save.
LEMMA OthersLoad ==
    ASSUME Control, NEW v \in Workers, mutex # v
    PROVE  phase[v] = "load"
BY DEF Control, ControlAt

\* Nobody is in a save while the server does not serve.
LEMMA NobodySaves ==
    ASSUME FeedTypeOK, Control, server # "serving"
    PROVE  mutex = None /\ \A w \in Workers : pc[w] = "idle" /\ phase[w] = "load"
<1>1. \A w \in Workers : pc[w] = "idle"
  BY DEF Control, ControlAt
<1>2. \A w \in Workers : phase[w] = "load"
  BY <1>1 DEF FeedTypeOK, Control, ControlAt, Reads, Phases
<1>3. mutex = None
  BY <1>2 DEF FeedTypeOK, Control, ControlAt
<1> QED
  BY <1>1, <1>2, <1>3

\* A step of worker w that leaves the directory alone leaves the others alone.
Alone(w) ==
    /\ UNCHANGED <<disk, import>>
    /\ \A v \in Workers \ {w} :
          /\ pc'[v] = pc[v] /\ phase'[v] = phase[v] /\ name'[v] = name[v]
          /\ seen'[v] = seen[v] /\ want'[v] = want[v] /\ file'[v] = file[v]
          /\ hist'[v] = hist[v]
          /\ (mutex' = v) <=> (mutex = v)

LEMMA AloneFrame ==
    ASSUME FeedInv, NEW w \in Workers, Alone(w)
    PROVE  /\ \A v \in Workers \ {w} : ControlAt(v)' /\ ViewAt(v)'
           /\ Export'
           /\ \A n \in Names : File(n)' = File(n) /\ Current(n)' = Current(n)
<1>1. \A n \in Names : File(n)' = File(n) /\ Current(n)' = Current(n)
  BY DEF Alone, disk, File, Current
<1>2. Export'
  BY DEF FeedInv, Export, Exported, Alone, disk, import
<1>3. ASSUME NEW v \in Workers \ {w}
      PROVE  ControlAt(v)' /\ ViewAt(v)'
  <2>1. ControlAt(v) /\ ViewAt(v)
    BY DEF FeedInv, Control, View
  <2>2. ControlAt(v)'
    BY <2>1 DEF Alone, ControlAt, import
  <2>3. NewEntry(v)' = NewEntry(v)
    BY DEF Alone, NewEntry
  <2>4. phase[v] # "load" => name[v] \in Names
    BY <2>1 DEF ControlAt, Reads, FeedInv, FeedTypeOK, Phases
  <2>5. ViewAt(v)'
    BY <1>1, <2>1, <2>3, <2>4 DEF Alone, ViewAt, CheckView, ConfirmView, disk
  <2> QED
    BY <2>2, <2>5
<1> QED
  BY <1>1, <1>2, <1>3

-----------------------------------------------------------------------------
(* Steps of one request that leave the directory alone *)

\* It is enough to look at the worker that moves.
LEMMA WorkerStep ==
    ASSUME FeedInv, NEW w \in Workers, Alone(w),
           FeedTypeOK', ControlAt(w)', ViewAt(w)'
    PROVE  FeedInv'
BY AloneFrame DEF FeedInv, Control, View

\* An editor begins.
LEMMA LoadInv ==
    ASSUME FeedInv, NEW w \in Workers, NEW n \in Names, Load(w, n)
    PROVE  FeedInv'
<1>1. Alone(w)
  BY DEF FeedInv, FeedTypeOK, Load, Goto, Alone
<1>2. FeedTypeOK'
  BY DEF FeedInv, FeedTypeOK, Load, Goto, Labels, disk, import
<1>3. ControlAt(w) /\ phase[w] = "load"
  BY DEF FeedInv, FeedTypeOK, Control, ControlAt, Load, Reads, Phases
<1>4. ControlAt(w)'
  BY <1>3 DEF FeedInv, FeedTypeOK, ControlAt, Load, Goto, Reads, import
<1>5. ViewAt(w)'
  BY <1>3 DEF ViewAt, Load
<1> QED
  BY <1>1, <1>2, <1>4, <1>5, WorkerStep

\* The two reads of feed files.
LEMMA ReadFilesInv ==
    ASSUME FeedInv, NEW w \in Workers, ReadPub(w) \/ ReadOff(w)
    PROVE  FeedInv'
<1>1. Alone(w)
  BY DEF FeedInv, FeedTypeOK, ReadPub, ReadOff, Goto, Alone
<1>0. PICK n \in Names : name[w] = n
  BY DEF FeedInv, Control, ControlAt, ReadPub, ReadOff
<1>2. ControlAt(w) /\ ViewAt(w) /\ FeedTypeOK
  BY DEF FeedInv, Control, View
<1>3. FeedTypeOK'
  <2>1. /\ [content |-> pub[n], enabled |-> TRUE] \in Found
        /\ [content |-> off[n], enabled |-> FALSE] \in Found
    BY <1>2 DEF FeedTypeOK, Found
  <2>2. CASE ReadPub(w)
    BY <1>0, <1>2, <2>1, <2>2 DEF FeedTypeOK, ReadPub, Goto, Labels, disk, import
  <2>3. CASE ReadOff(w)
    BY <1>0, <1>2, <2>1, <2>3 DEF FeedTypeOK, ReadOff, Goto, Labels, disk, import
  <2> QED
    BY <2>2, <2>3
<1>4. ControlAt(w)'
  BY <1>2 DEF FeedTypeOK, ControlAt, ReadPub, ReadOff, Goto, Reads, import
<1>5. ASSUME ReadPub(w)
      PROVE  ViewAt(w)'
  <2>1. pub[n] \in Readable => pub[n] # Absent
    BY FeedAssumption
  <2>2. pub[n] # Absent => File(n) = [content |-> pub[n], enabled |-> TRUE]
    BY DEF File
  <2>3. File(n)' = File(n)
    BY <1>1, AloneFrame
  <2>4. /\ phase'[w] = phase[w] /\ name'[w] = n /\ want'[w] = want[w] /\ hist'[w] = hist[w]
        /\ pub' = pub /\ side' = side
        /\ \/ pc'[w] = "readOff" /\ pub[n] = Absent
           \/ pc'[w] = "readSide" /\ file'[w] = File(n)
    BY <1>0, <1>5, <1>2, <2>1, <2>2 DEF FeedTypeOK, ReadPub, Goto, disk
  <2>5. NewEntry(w)' = NewEntry(w)
    BY <2>4 DEF NewEntry
  <2> QED
    BY <1>0, <1>2, <2>3, <2>4, <2>5 DEF ViewAt, CheckView, ConfirmView
<1>6. ASSUME ReadOff(w)
      PROVE  ViewAt(w)'
  <2>1. pub[n] = Absent => File(n) = [content |-> off[n], enabled |-> FALSE]
    BY DEF File
  <2>2. File(n)' = File(n)
    BY <1>1, AloneFrame
  <2>3. /\ phase'[w] = phase[w] /\ name'[w] = n /\ want'[w] = want[w] /\ hist'[w] = hist[w]
        /\ pub' = pub /\ side' = side
        /\ pc[w] = "readOff" /\ pc'[w] = "readSide"
        /\ file'[w] = [content |-> off[n], enabled |-> FALSE]
    BY <1>0, <1>6, <1>2 DEF FeedTypeOK, ReadOff, Goto, disk
  <2>4. NewEntry(w)' = NewEntry(w)
    BY <2>3 DEF NewEntry
  <2> QED
    BY <1>0, <1>2, <2>1, <2>2, <2>3, <2>4 DEF ViewAt, CheckView, ConfirmView
<1> QED
  BY <1>1, <1>3, <1>4, <1>5, <1>6, WorkerStep

\* The editor has its feed, or submits.
LEMMA EditInv ==
    ASSUME FeedInv, NEW w \in Workers,
           ReadSideLoad(w) \/ \E m \in Manifests, b \in BOOLEAN : Submit(w, m, b)
    PROVE  FeedInv'
<1>1. Alone(w)
  BY DEF FeedInv, FeedTypeOK, ReadSideLoad, Submit, Goto, Alone
<1>2. ControlAt(w) /\ FeedTypeOK /\ name[w] \in Names /\ phase[w] = "load"
  BY DEF FeedInv, FeedTypeOK, Control, ControlAt, ReadSideLoad, Submit, Reads, Phases
<1>3. Assembled(w, side[name[w]]) \in Snapshot
  BY <1>2, ShownTyped DEF Assembled, FeedTypeOK, Shown, Found, Snapshot, NotFound, NoFile
<1>4. FeedTypeOK'
  <2>1. CASE ReadSideLoad(w)
    BY <1>2, <1>3, <2>1 DEF FeedTypeOK, ReadSideLoad, Goto, Labels, Found, NoFile, disk, import
  <2>2. ASSUME NEW m \in Manifests, NEW b \in BOOLEAN, Submit(w, m, b)
        PROVE  FeedTypeOK'
    BY <1>2, <2>2, FeedAssumption DEF FeedTypeOK, Submit, Goto, Labels, Found, disk, import
  <2> QED
    BY <2>1, <2>2
<1>5. ControlAt(w)'
  BY <1>2 DEF FeedTypeOK, ControlAt, ReadSideLoad, Submit, Goto, Reads, Submitted, import
<1>6. ViewAt(w)'
  BY <1>2 DEF ViewAt, ReadSideLoad, Submit
<1> QED
  BY <1>1, <1>4, <1>5, <1>6, WorkerStep

\* The mutex is taken; the history is read.
LEMMA CheckInv ==
    ASSUME FeedInv, NEW w \in Workers, Lock(w) \/ ReadSideCheck(w)
    PROVE  FeedInv'
<1>1. Alone(w)
  BY FeedAssumption DEF FeedInv, FeedTypeOK, Lock, ReadSideCheck, Goto, Alone
<1>2. ControlAt(w) /\ ViewAt(w) /\ FeedTypeOK /\ name[w] \in Names
  BY DEF FeedInv, Control, View, ControlAt, Lock, ReadSideCheck
<1>3. FeedTypeOK'
  BY <1>2 DEF FeedTypeOK, Lock, ReadSideCheck, Goto, Labels, Phases, disk, import
<1>4. ControlAt(w)'
  BY <1>2 DEF FeedTypeOK, ControlAt, Lock, ReadSideCheck, Goto, Reads, import
<1>5. File(name[w])' = File(name[w])
  BY <1>1, <1>2, AloneFrame DEF Alone, File, Lock, ReadSideCheck, disk
<1>6. ViewAt(w)'
  BY <1>2, <1>5 DEF FeedTypeOK, ViewAt, CheckView, Lock, ReadSideCheck, Goto, disk
<1> QED
  BY <1>1, <1>3, <1>4, <1>6, WorkerStep

\* The comparison succeeds: the feed is as its editor has seen it.
LEMMA AcceptInv ==
    ASSUME FeedInv, NEW w \in Workers, Accept(w)
    PROVE  FeedInv'
<1>1. Alone(w)
  BY DEF FeedInv, FeedTypeOK, Accept, Goto, Alone
<1>0. PICK n \in Names : name[w] = n
  BY DEF FeedInv, Control, ControlAt, Accept
<1>2. ControlAt(w) /\ ViewAt(w) /\ FeedTypeOK /\ phase[w] = "check"
  BY DEF FeedInv, FeedTypeOK, Control, View, ControlAt, Accept, Phases, Reads
<1>3. FeedTypeOK'
  BY <1>2 DEF FeedTypeOK, Accept, Goto, Labels, Found, NoFile, disk, import
<1>4. ControlAt(w)'
  BY <1>2 DEF FeedTypeOK, ControlAt, Accept, Goto, Reads, import
<1>5. Current(n) = seen[w] /\ hist[w] = side[n]
  BY <1>0, <1>2 DEF ViewAt, CheckView, Accept, UnchangedSince, Assembled, Current
<1>6. Current(n)' = Current(n)
  BY <1>1, AloneFrame
<1>7. ViewAt(w)'
  BY <1>0, <1>2, <1>5, <1>6 DEF FeedTypeOK, ViewAt, CheckView, Accept, Goto, disk
<1> QED
  BY <1>1, <1>3, <1>4, <1>7, WorkerStep

\* A request ends, or its answer leaves the editor with the saved feed.
LEMMA LeaveInv ==
    ASSUME FeedInv, NEW w \in Workers, Conflict(w) \/ Fail(w) \/ ReadSideConfirm(w)
    PROVE  FeedInv'
<1>1. Alone(w)
  BY FeedAssumption DEF FeedInv, FeedTypeOK, Conflict, Fail, ReadSideConfirm, Idle, Unlock,
                        Goto, Alone
<1>2. ControlAt(w) /\ FeedTypeOK /\ name[w] \in Names
  BY DEF FeedInv, Control, ControlAt, Conflict, Fail, ReadSideConfirm
<1>3. Assembled(w, side[name[w]]) \in Snapshot
  BY <1>2, ShownTyped DEF Assembled, FeedTypeOK, Shown, Found, Snapshot, NotFound, NoFile
<1>4. NotFound \in Snapshot /\ NoFile \in Found /\ << >> \in Seq(Entry)
  BY EmptySeq DEF NotFound, Shown, NoFile, Snapshot, Found
<1>5. FeedTypeOK'
  <2>1. CASE Conflict(w) \/ Fail(w)
    <3>1. Idle(w) /\ Unlock(w) /\ UNCHANGED <<disk, import>>
      BY <2>1 DEF Conflict, Fail
    <3>2. /\ pc' \in [Workers -> Labels] /\ phase' \in [Workers -> Phases]
          /\ name' \in [Workers -> Names \cup {None}] /\ seen' \in [Workers -> Snapshot]
          /\ mutex' \in Workers \cup {None}
      BY <1>2, <1>4, <3>1 DEF FeedTypeOK, Idle, Unlock, Goto, Labels, Phases
    <3>3. /\ want' \in [Workers -> Found] /\ file' \in [Workers -> Found]
          /\ hist' \in [Workers -> Seq(Entry)]
      BY <1>2, <1>4, <3>1 DEF FeedTypeOK, Idle
    <3> QED
      BY <1>2, <3>1, <3>2, <3>3 DEF FeedTypeOK, disk, import
  <2>2. CASE ReadSideConfirm(w)
    BY <1>2, <1>3, <1>4, <2>2 DEF FeedTypeOK, ReadSideConfirm, Unlock, Goto, Labels, Phases,
                                  disk, import
  <2> QED
    BY <2>1, <2>2
<1>6. mutex' # w
  BY FeedAssumption DEF Conflict, Fail, ReadSideConfirm, Unlock
<1>7. ControlAt(w)'
  BY <1>2, <1>6 DEF FeedTypeOK, ControlAt, Conflict, Fail, ReadSideConfirm, Idle, Goto, Reads,
                    import
<1>8. ViewAt(w)'
  BY <1>2 DEF FeedTypeOK, ViewAt, Conflict, Fail, ReadSideConfirm, Idle
<1> QED
  BY <1>1, <1>5, <1>7, <1>8, WorkerStep

-----------------------------------------------------------------------------
(* Steps of a save that write *)

\* Worker w, in its save on n, takes a step that may write files.
Saving(w, n) ==
    /\ name[w] = n
    /\ phase[w] = "check" /\ mutex = w
    /\ UNCHANGED <<marker, import, mutex, name, seen, want, file, hist>>
    /\ \A v \in Workers \ {w} : pc'[v] = pc[v] /\ phase'[v] = phase[v]

\* The others are not in a save, so nothing they rely on can change.
LEMMA SavingFrame ==
    ASSUME FeedInv, NEW w \in Workers, NEW n \in Names, Saving(w, n),
           FeedTypeOK', ControlAt(w)', ViewAt(w)', Export'
    PROVE  FeedInv'
<1>1. ASSUME NEW v \in Workers \ {w}
      PROVE  ControlAt(v)' /\ ViewAt(v)'
  <2>1. phase[v] = "load" /\ ControlAt(v)
    BY OthersLoad DEF FeedInv, Control, Saving
  <2>2. ControlAt(v)'
    BY <2>1 DEF Saving, ControlAt, import
  <2>3. ViewAt(v)'
    BY <2>1 DEF Saving, ViewAt
  <2> QED
    BY <2>2, <2>3
<1> QED
  BY <1>1 DEF FeedInv, Control, View

\* A worker about to write has what it needs.
LEMMA SaveContext ==
    ASSUME FeedInv, NEW w \in Workers, pc[w] \in {"write", "remove", "record"}
    PROVE  /\ name[w] \in Names /\ phase[w] = "check" /\ mutex = w
           /\ server = "serving" /\ marker
           /\ want[w] \in Submitted
           /\ want[w] = [content |-> want[w].content, enabled |-> want[w].enabled]
           /\ want[w].content # Absent
           /\ CheckView(w, name[w])
<1>1. ControlAt(w) /\ ViewAt(w) /\ FeedTypeOK
  BY DEF FeedInv, Control, View
<1>2. name[w] \in Names /\ server = "serving"
  BY <1>1 DEF ControlAt
<1>3. phase[w] = "check" /\ mutex = w /\ want[w] \in Submitted
  BY <1>1 DEF ControlAt, FeedTypeOK, Phases, Reads
<1>4. want[w] = [content |-> want[w].content, enabled |-> want[w].enabled]
  BY <1>3 DEF Submitted
<1>5. want[w].content # Absent
  BY <1>3, FeedAssumption DEF Submitted
<1>6. marker
  BY <1>2 DEF FeedInv, Export
<1> QED
  BY <1>1, <1>2, <1>3, <1>4, <1>5, <1>6 DEF ViewAt

\* What Write and Remove do to what feeds show.
LEMMA FilesSwitch ==
    ASSUME FeedInv, NEW w \in Workers, Write(w) \/ Remove(w)
    PROVE  /\ \A n \in Names \ {name[w]} : File(n)' = File(n)
           /\ \A n \in Names : n = name[w] /\ File(n)' # File(n) =>
                 Current(n) = seen[w] /\ File(n)' = want[w]
<1>1. /\ name[w] \in Names /\ want[w].content # Absent /\ CheckView(w, name[w])
      /\ want[w] = [content |-> want[w].content, enabled |-> want[w].enabled]
      /\ want[w].enabled \in BOOLEAN
  BY SaveContext DEF Write, Remove, Submitted
<1>2. PICK n \in Names : name[w] = n
  BY <1>1
<1>3. pub \in [Names -> Contents \cup {Absent}] /\ off \in [Names -> Contents \cup {Absent}]
  BY DEF FeedInv, FeedTypeOK
<1>4. \A k \in Names \ {n} : pub'[k] = pub[k] /\ off'[k] = off[k]
  BY <1>2, <1>3 DEF Write, Remove, AtomicWrite
<1>5. \A k \in Names \ {n} : File(k)' = File(k)
  BY <1>4 DEF File
<1>6. CASE Write(w)
  <2>1. Current(n) = seen[w]
    BY <1>1, <1>2, <1>6 DEF CheckView, Write
  <2>2. CASE want[w].enabled
    <3>1. pub'[n] = want[w].content
      BY <1>2, <1>3, <1>6, <2>2 DEF Write, AtomicWrite
    <3>2. File(n)' = want[w]
      BY <1>1, <2>2, <3>1 DEF File
    <3> QED
      BY <1>2, <1>5, <2>1, <3>2
  <2>3. CASE ~want[w].enabled
    <3>1. pub' = pub /\ off'[n] = want[w].content
      BY <1>2, <1>3, <1>6, <2>3 DEF Write, AtomicWrite
    <3>2. pub[n] # Absent => File(n)' = File(n)
      BY <3>1 DEF File
    <3>3. pub[n] = Absent => File(n)' = want[w]
      BY <1>1, <2>3, <3>1 DEF File
    <3> QED
      BY <1>2, <1>5, <2>1, <3>2, <3>3
  <2> QED
    BY <2>2, <2>3
<1>7. CASE Remove(w)
  <2>1. CASE want[w].enabled
    <3>1. pub' = pub /\ pub[n] = want[w].content
      BY <1>1, <1>2, <1>7, <2>1 DEF Remove, CheckView
    <3>2. File(n)' = File(n)
      BY <1>1, <3>1 DEF File
    <3> QED
      BY <1>2, <1>5, <3>2
  <2>2. CASE ~want[w].enabled
    <3>1. /\ off' = off /\ off[n] = want[w].content
          /\ pub[n] = Absent \/ Current(n) = seen[w]
      BY <1>1, <1>2, <1>7, <2>2 DEF Remove, CheckView
    <3>2. pub'[n] = Absent
      BY <1>2, <1>3, <1>7, <2>2 DEF Remove
    <3>3. File(n)' = want[w]
      BY <1>1, <2>2, <3>1, <3>2 DEF File
    <3>4. pub[n] = Absent => File(n) = want[w]
      BY <1>1, <2>2, <3>1 DEF File
    <3> QED
      BY <1>2, <1>5, <3>1, <3>3, <3>4
  <2> QED
    BY <2>1, <2>2
<1> QED
  BY <1>6, <1>7

LEMMA WriteInv ==
    ASSUME FeedInv, NEW w \in Workers, Write(w)
    PROVE  FeedInv'
<1>1. /\ name[w] \in Names /\ phase[w] = "check" /\ mutex = w /\ server = "serving"
      /\ want[w] \in Submitted /\ CheckView(w, name[w]) /\ FeedTypeOK
  BY SaveContext DEF Write, FeedInv
<1>2. PICK n \in Names : name[w] = n
  BY <1>1
<1>3. Saving(w, n) /\ side' = side
  BY <1>1, <1>2 DEF Saving, Write, Goto, FeedTypeOK
<1>4. FeedTypeOK'
  <2>1. want[w].content \in Contents
    BY <1>1, FeedAssumption DEF Submitted
  <2>2. pub' \in [Names -> Contents \cup {Absent}] /\ off' \in [Names -> Contents \cup {Absent}]
    BY <1>1, <2>1 DEF FeedTypeOK, Write, AtomicWrite
  <2> QED
    BY <1>1, <2>2 DEF FeedTypeOK, Write, Goto, Labels, import
<1>5. ControlAt(w)'
  BY <1>1 DEF ControlAt, FeedTypeOK, Write, Goto, Reads, import
<1>6. ViewAt(w)'
  <2>1. Current(n) = seen[w] /\ hist[w] = side[n]
    BY <1>1, <1>2 DEF CheckView, Write
  <2>2. pub[n] # Absent /\ pub' = pub => Current(n)' = Current(n)
    BY <1>3 DEF Current, File
  <2>3. \/ want[w].enabled /\ pub'[n] = want[w].content
        \/ ~want[w].enabled /\ off'[n] = want[w].content /\ pub' = pub
    BY <1>1, <1>2 DEF FeedTypeOK, Write, AtomicWrite
  <2> QED
    BY <1>1, <1>2, <1>3, <2>1, <2>2, <2>3 DEF ViewAt, CheckView, FeedTypeOK, Write, Goto
<1>7. Export'
  BY <1>3 DEF FeedInv, Export, Exported, Saving, import
<1> QED
  BY <1>3, <1>4, <1>5, <1>6, <1>7, SavingFrame

LEMMA RemoveInv ==
    ASSUME FeedInv, NEW w \in Workers, Remove(w)
    PROVE  FeedInv'
<1>1. /\ name[w] \in Names /\ phase[w] = "check" /\ mutex = w /\ server = "serving"
      /\ want[w] \in Submitted /\ CheckView(w, name[w]) /\ FeedTypeOK
      /\ want[w].content # Absent
      /\ want[w] = [content |-> want[w].content, enabled |-> want[w].enabled]
  BY SaveContext DEF Remove, FeedInv
<1>2. PICK n \in Names : name[w] = n
  BY <1>1
<1>3. Saving(w, n) /\ side' = side
  BY <1>1, <1>2 DEF Saving, Remove, Goto, FeedTypeOK
<1>4. FeedTypeOK'
  <2>1. pub' \in [Names -> Contents \cup {Absent}] /\ off' \in [Names -> Contents \cup {Absent}]
    BY <1>1 DEF FeedTypeOK, Remove
  <2> QED
    BY <1>1, <2>1 DEF FeedTypeOK, Remove, Goto, Labels, import
<1>5. ControlAt(w)'
  BY <1>1 DEF ControlAt, FeedTypeOK, Remove, Goto, Reads, import
<1>6. File(n)' = want[w]
  <2>1. CASE want[w].enabled
    BY <1>1, <1>2, <2>1 DEF CheckView, Remove, File
  <2>2. CASE ~want[w].enabled
    <3>1. off' = off /\ off[n] = want[w].content /\ pub'[n] = Absent
      BY <1>1, <1>2, <2>2 DEF CheckView, FeedTypeOK, Remove
    <3> QED
      BY <1>1, <2>2, <3>1 DEF File, Submitted
  <2> QED
    BY <2>1, <2>2
<1>7. ViewAt(w)'
  BY <1>1, <1>2, <1>3, <1>6 DEF ViewAt, CheckView, FeedTypeOK, Remove, Goto
<1>8. Export'
  BY <1>3 DEF FeedInv, Export, Exported, Saving, import
<1> QED
  BY <1>3, <1>4, <1>5, <1>7, <1>8, SavingFrame

\* The entry that a save adds, and the history it is added to.
LEMMA RecordAppends ==
    ASSUME FeedInv, NEW w \in Workers, Record(w)
    PROVE  /\ NewEntry(w) \in Entry
           /\ NewEntry(w).revision = Revision(side[name[w]]) + 1
           /\ hist[w] = side[name[w]]
           /\ side' = [side EXCEPT ![name[w]] = Append(side[name[w]], NewEntry(w))]
<1>1. /\ name[w] \in Names /\ want[w] \in Submitted /\ CheckView(w, name[w]) /\ FeedTypeOK
  BY SaveContext DEF Record, FeedInv
<1>2. hist[w] = side[name[w]]
  BY <1>1 DEF CheckView, Record
<1>3. Revision(side[name[w]]) \in Nat
  BY <1>1, ShownTyped
<1> QED
  BY <1>1, <1>2, <1>3 DEF NewEntry, Shown, Submitted, Entry, Record, AtomicWrite

LEMMA RecordInv ==
    ASSUME FeedInv, NEW w \in Workers, Record(w)
    PROVE  FeedInv'
<1>1. /\ name[w] \in Names /\ phase[w] = "check" /\ mutex = w /\ server = "serving" /\ marker
      /\ want[w] \in Submitted /\ CheckView(w, name[w]) /\ FeedTypeOK
  BY SaveContext DEF Record, FeedInv
<1>2. PICK n \in Names : name[w] = n
  BY <1>1
<1>3. Saving(w, n)
  BY <1>1, <1>2 DEF Saving, Record, Goto, FeedTypeOK
<1>4. /\ NewEntry(w) \in Entry /\ hist[w] = side[n] /\ side[n] \in Seq(Entry)
      /\ side' = [side EXCEPT ![n] = Append(side[n], NewEntry(w))]
  BY <1>1, <1>2, RecordAppends DEF FeedTypeOK
<1>5. /\ Append(side[n], NewEntry(w)) \in Seq(Entry)
      /\ Len(Append(side[n], NewEntry(w))) = Len(side[n]) + 1
      /\ Len(side[n]) \in Nat
      /\ \A i \in 1 .. Len(side[n]) : Append(side[n], NewEntry(w))[i] = side[n][i]
  BY <1>4, AppendProperties, LenProperties
<1>6. side' \in [Names -> Seq(Entry)]
  BY <1>1, <1>4, <1>5 DEF FeedTypeOK
<1>7. FeedTypeOK'
  BY <1>1, <1>6 DEF FeedTypeOK, Record, Goto, Labels, Phases, import
<1>8. ControlAt(w)'
  BY <1>1 DEF ControlAt, FeedTypeOK, Record, Goto, Reads, import
<1>9. ViewAt(w)'
  <2>1. File(n)' = File(n) /\ NewEntry(w)' = NewEntry(w)
    BY DEF Record, File, NewEntry
  <2>2. side'[n] = Append(hist[w], NewEntry(w))
    BY <1>1, <1>4 DEF FeedTypeOK
  <2>3. File(n) = want[w]
    BY <1>1, <1>2 DEF CheckView, Record
  <2> QED
    BY <1>1, <1>2, <1>3, <2>1, <2>2, <2>3
       DEF ViewAt, CheckView, ConfirmView, FeedTypeOK, Record, Goto, Saving
<1>10. Export'
  <2>1. \A k \in Names : Exported(k)
    BY <1>1 DEF FeedInv, Export
  <2>2. \A k \in Names \ {n} : Exported(k)'
    BY <1>1, <1>4, <2>1 DEF Exported, FeedTypeOK
  <2>3. side'[n] = Append(side[n], NewEntry(w)) /\ Legacy[n] \in Seq(Entry)
    BY <1>1, <1>4, FeedAssumption DEF FeedTypeOK
  <2>4. Len(Legacy[n]) \in Nat
    BY <2>3, LenProperties
  <2>5. Exported(n)'
    BY <1>5, <2>1, <2>3, <2>4 DEF Exported
  <2> QED
    BY <1>1, <1>3, <2>2, <2>5 DEF FeedInv, Export, Saving, import
<1> QED
  BY <1>3, <1>7, <1>8, <1>9, <1>10, SavingFrame

-----------------------------------------------------------------------------
(* Starts, crashes and hand-made changes *)

\* While nobody is in a save, nobody relies on what the directory holds.
LEMMA QuietFrame ==
    ASSUME FeedInv, UNCHANGED <<mutex, worker>>, mutex = None,
           server' = server \/ server # "serving"
    PROVE  Control' /\ View'
<1>1. ASSUME NEW w \in Workers
      PROVE  ControlAt(w)' /\ ViewAt(w)'
  <2>1. ControlAt(w) /\ phase[w] = "load"
    BY FeedAssumption, OthersLoad DEF FeedInv, Control
  <2>2. ControlAt(w)'
    BY <2>1 DEF ControlAt, worker
  <2>3. ViewAt(w)'
    BY <2>1 DEF ViewAt, worker
  <2> QED
    BY <2>2, <2>3
<1> QED
  BY <1>1 DEF Control, View

\* A feed that SQLite does not have needs no export.
LEMMA NothingToExport ==
    ASSUME FeedTypeOK, NEW n \in Names \ LegacyNames
    PROVE  Exported(n)
<1>1. Legacy[n] = << >> /\ side[n] \in Seq(Entry)
  BY DEF LegacyNames, FeedTypeOK
<1>2. Len(Legacy[n]) = 0 /\ Len(side[n]) \in Nat
  BY <1>1, EmptySeq, LenProperties
<1> QED
  BY <1>2 DEF Exported

LEMMA StartInv ==
    ASSUME FeedInv, Start
    PROVE  FeedInv'
<1>1. exporting = None /\ mutex = None
  BY NobodySaves DEF FeedInv, FeedTypeOK, Export, Start
<1>2. FeedTypeOK'
  BY <1>1 DEF FeedInv, FeedTypeOK, Start, LegacyNames, disk, worker
<1>3. Control' /\ View'
  BY <1>1, QuietFrame DEF Start
<1>4. Export'
  BY <1>1 DEF FeedInv, Export, Exported, Start, disk
<1> QED
  BY <1>2, <1>3, <1>4 DEF FeedInv

\* The sidecar of a feed holds its legacy history before its file is written.
LEMMA ImportSidecarInv ==
    ASSUME FeedInv, NEW n \in Names, ImportSidecar(n)
    PROVE  FeedInv'
<1>1. mutex = None /\ ~marker /\ FeedTypeOK /\ Legacy[n] \in Seq(Entry)
  BY NobodySaves, FeedAssumption DEF FeedInv, FeedTypeOK, Export, ImportSidecar
<1>2. side' = [side EXCEPT ![n] = Legacy[n]]
  BY <1>1 DEF FeedInv, FeedTypeOK, Export, ImportSidecar, AtomicWrite
<1>3. FeedTypeOK'
  BY <1>1, <1>2 DEF FeedTypeOK, ImportSidecar, worker
<1>4. Control' /\ View'
  BY <1>1, QuietFrame DEF ImportSidecar
<1>5. Exported(n)'
  <2>1. side'[n] = Legacy[n] /\ Len(Legacy[n]) \in Nat
    BY <1>1, <1>2, LenProperties DEF FeedTypeOK
  <2> QED
    BY <2>1 DEF Exported
<1>6. \A k \in Names \ {n} : side'[k] = side[k] /\ (Exported(k) => Exported(k)')
  BY <1>1, <1>2 DEF Exported, FeedTypeOK
<1>7. side'[n] = Legacy[n]
  BY <1>1, <1>2 DEF FeedTypeOK
<1>8. Export'
  BY <1>1, <1>5, <1>6, <1>7 DEF FeedInv, Export, ImportSidecar, LegacyNames
<1> QED
  BY <1>3, <1>4, <1>8 DEF FeedInv

LEMMA ImportFileInv ==
    ASSUME FeedInv, ImportFile
    PROVE  FeedInv'
<1>1. mutex = None /\ ~marker /\ FeedTypeOK /\ exporting \in todo /\ todo \subseteq LegacyNames
  BY NobodySaves DEF FeedInv, FeedTypeOK, Export, ImportFile
<1>2. PICK n \in LegacyNames : exporting = n
  BY <1>1
<1>3. Legacy[n][LegacyCurrent[n]].content \in Contents
  <2>1. n \in Names /\ Legacy[n] \in Seq(Entry) /\ LegacyCurrent[n] \in DOMAIN Legacy[n]
    BY FeedAssumption DEF LegacyNames
  <2>2. Legacy[n][LegacyCurrent[n]] \in Entry
    BY <2>1, ElementOfSeq, LenProperties
  <2> QED
    BY <2>2, FeedAssumption DEF Entry
<1>4. FeedTypeOK'
  <2>1. pub' \in [Names -> Contents \cup {Absent}] /\ off' \in [Names -> Contents \cup {Absent}]
    BY <1>1, <1>2, <1>3 DEF FeedTypeOK, ImportFile, AtomicWrite
  <2> QED
    BY <1>1, <2>1 DEF FeedTypeOK, ImportFile, worker
<1>5. Control' /\ View'
  BY <1>1, QuietFrame DEF ImportFile
<1>6. Export'
  BY <1>1, <1>2 DEF FeedInv, Export, Exported, ImportFile
<1> QED
  BY <1>4, <1>5, <1>6 DEF FeedInv

LEMMA ImportDoneInv ==
    ASSUME FeedInv, ImportDone
    PROVE  FeedInv'
<1>1. mutex = None /\ FeedTypeOK /\ \A w \in Workers : pc[w] = "idle"
  BY NobodySaves DEF FeedInv, ImportDone
<1>2. FeedTypeOK'
  BY <1>1 DEF FeedTypeOK, ImportDone, worker
<1>3. Control' /\ View'
  BY <1>1, QuietFrame DEF ImportDone
<1>4. \A n \in Names : Exported(n)
  BY <1>1, NothingToExport DEF FeedInv, Export, ImportDone
<1>5. Export'
  BY <1>4 DEF FeedInv, Export, Exported, ImportDone
<1> QED
  BY <1>2, <1>3, <1>5 DEF FeedInv

LEMMA CrashInv ==
    ASSUME FeedInv, Crash
    PROVE  FeedInv'
<1>1. NotFound \in Snapshot /\ NoFile \in Found /\ << >> \in Seq(Entry)
  BY EmptySeq DEF NotFound, Shown, NoFile, Snapshot, Found
<1>2. FeedTypeOK'
  BY <1>1 DEF FeedInv, FeedTypeOK, Crash, disk, Labels, Phases
<1>3. Control' /\ View'
  BY FeedAssumption DEF Crash, Control, ControlAt, View, ViewAt, Reads
<1>4. Export'
  BY DEF FeedInv, Export, Exported, Crash, disk
<1> QED
  BY <1>2, <1>3, <1>4 DEF FeedInv

\* A file put or removed by hand.
LEMMA ByHandInv ==
    ASSUME FeedInv, NEW n \in Names,
           Unpublish(n) \/ \E c \in Contents : Publish(n, c)
    PROVE  FeedInv'
<1>1. mutex = None /\ UNCHANGED <<off, side, marker, import, mutex, worker>>
  BY DEF Unpublish, Publish, Coordinated
<1>2. pub' \in [Names -> Contents \cup {Absent}]
  BY DEF FeedInv, FeedTypeOK, Unpublish, Publish
<1>3. FeedTypeOK'
  BY <1>1, <1>2 DEF FeedInv, FeedTypeOK, import, worker
<1>4. Control' /\ View'
  BY <1>1, QuietFrame DEF import
<1>5. Export'
  BY <1>1 DEF FeedInv, Export, Exported, import
<1> QED
  BY <1>3, <1>4, <1>5 DEF FeedInv

-----------------------------------------------------------------------------
(* The invariant *)

LEMMA InitInv ==
    ASSUME Init
    PROVE  FeedInv
<1>1. NotFound \in Snapshot /\ NoFile \in Found /\ << >> \in Seq(Entry)
  BY EmptySeq DEF NotFound, Shown, NoFile, Snapshot, Found
<1>2. FeedTypeOK
  BY <1>1 DEF FeedTypeOK, Init, IdleWorkers, Labels, Phases
<1>3. Control /\ View
  BY FeedAssumption DEF Init, IdleWorkers, Control, ControlAt, View, ViewAt, Reads
<1>4. Export
  BY DEF Init, Export
<1> QED
  BY <1>2, <1>3, <1>4 DEF FeedInv

LEMMA StutterInv ==
    ASSUME FeedInv, UNCHANGED feedVars
    PROVE  FeedInv'
<1>1. UNCHANGED <<disk, import, mutex, worker>>
  BY DEF feedVars
<1>2. FeedTypeOK'
  BY <1>1 DEF FeedInv, FeedTypeOK, disk, import, worker
<1>3. Export'
  BY <1>1 DEF FeedInv, Export, Exported, disk, import
<1>4. ASSUME NEW w \in Workers
      PROVE  ControlAt(w)' /\ ViewAt(w)'
  <2>1. ControlAt(w)'
    BY <1>1 DEF FeedInv, Control, ControlAt, import, worker
  <2>2. NewEntry(w)' = NewEntry(w)
    BY <1>1 DEF NewEntry, worker
  <2>3. ViewAt(w)'
    BY <1>1, <2>2 DEF FeedInv, View, ViewAt, CheckView, ConfirmView, Current, File, disk, worker
  <2> QED
    BY <2>1, <2>3
<1> QED
  BY <1>2, <1>3, <1>4 DEF FeedInv, Control, View

LEMMA NextInv ==
    ASSUME FeedInv, [Next]_feedVars
    PROVE  FeedInv'
<1>1. ASSUME NEW n \in Names, NEW w \in Workers, Load(w, n)
      PROVE  FeedInv'
  BY <1>1, LoadInv
<1>2. ASSUME NEW w \in Workers,
             \/ \E m \in Manifests, b \in BOOLEAN : Submit(w, m, b)
             \/ Lock(w) \/ Advance(w) \/ Fail(w)
      PROVE  FeedInv'
  BY <1>2, ReadFilesInv, EditInv, CheckInv, AcceptInv, LeaveInv, WriteInv, RemoveInv, RecordInv
     DEF Advance
<1>3. ASSUME NEW n \in Names,
             ImportSidecar(n) \/ Unpublish(n) \/ \E c \in Contents : Publish(n, c)
      PROVE  FeedInv'
  BY <1>3, ImportSidecarInv, ByHandInv
<1>4. CASE Start \/ ImportFile \/ ImportDone \/ Crash
  BY <1>4, StartInv, ImportFileInv, ImportDoneInv, CrashInv
<1> QED
  BY <1>1, <1>2, <1>3, <1>4, StutterInv DEF Next

\* However saves, crashes, imports and manual replacements interleave, what a
\* save in progress has read stays true, and the import loses no history.
THEOREM FeedInvariant == Spec => []FeedInv
<1>1. Init => FeedInv
  BY InitInv
<1>2. FeedInv /\ [Next]_feedVars => FeedInv'
  BY NextInv
<1> QED
  BY <1>1, <1>2, PTL DEF Spec

\* The directory, the import and every request keep their types.
THEOREM FeedTypeCorrect == Spec => []FeedTypeOK
<1>1. FeedInv => FeedTypeOK
  BY DEF FeedInv
<1> QED
  BY <1>1, FeedInvariant, PTL

\* Once importLegacy has left its marker, no legacy history is missing.
THEOREM ExportsComplete == Spec => []ExportComplete
<1>1. FeedInv => ExportComplete
  BY DEF FeedInv, Export, Exported, ExportComplete
<1> QED
  BY <1>1, FeedInvariant, PTL

-----------------------------------------------------------------------------
(* What a step may never do *)

\* The steps that change files, and those that change sidecars.
LEMMA FilesChange ==
    ASSUME FeedInv, Next, ~UNCHANGED <<pub, off>>
    PROVE  \/ ImportFile
           \/ pc' = pc /\ server # "importing"
           \/ \E w \in Workers : Write(w) \/ Remove(w)
BY DEF Next, Start, ImportSidecar, ImportDone, Crash, Unpublish, Publish, Coordinated, Load,
       Submit, Lock, Fail, Advance, ReadPub, ReadOff, ReadSideLoad, ReadSideCheck,
       ReadSideConfirm, Accept, Conflict, Record, disk, worker

LEMMA SidecarsChange ==
    ASSUME FeedInv, Next, side' # side
    PROVE  \/ \E n \in Names : ImportSidecar(n)
           \/ \E w \in Workers : Record(w)
BY DEF Next, Start, ImportFile, ImportDone, Crash, Unpublish, Publish, Load, Submit, Lock, Fail,
       Advance, ReadPub, ReadOff, ReadSideLoad, ReadSideCheck, ReadSideConfirm, Accept, Conflict,
       Write, Remove, disk

\* A feed shows something else only if a file has changed.
LEMMA FileChanges ==
    ASSUME FeedInv, [Next]_feedVars, NEW n \in Names, File(n)' # File(n)
    PROVE  \/ ImportFile
           \/ pc' = pc /\ server # "importing"
           \/ \E w \in Workers : Write(w) \/ Remove(w)
<1>1. ~UNCHANGED <<pub, off>>
  BY DEF File
<1>2. Next
  BY <1>1 DEF feedVars, disk
<1> QED
  BY <1>1, <1>2, FilesChange

\* SaveUpdateFeed switches a feed once, from what its editor loaded to what its
\* editor submitted, for any number of editors and wherever a save stops.
THEOREM SavesSwitchOnce == Spec => SwitchesOnce
<1>1. ASSUME FeedInv, [Next]_feedVars, NEW n \in Names, File(n)' # File(n)
      PROVE  \/ pc' = pc
             \/ \E w \in Workers :
                   /\ name[w] = n /\ pc'[w] # pc[w]
                   /\ Current(n) = seen[w]
                   /\ File(n)' = want[w]
  <2>1. CASE ImportFile
    BY <2>1 DEF ImportFile, worker
  <2>2. ASSUME NEW w \in Workers, Write(w) \/ Remove(w)
        PROVE  /\ name[w] = n /\ pc'[w] # pc[w]
               /\ Current(n) = seen[w]
               /\ File(n)' = want[w]
    <3>1. name[w] = n /\ Current(n) = seen[w] /\ File(n)' = want[w]
      BY <1>1, <2>2, FilesSwitch
    <3>2. pc'[w] # pc[w]
      BY <1>1, <2>2 DEF FeedInv, FeedTypeOK, Write, Remove, Goto
    <3> QED
      BY <3>1, <3>2
  <2> QED
    BY <1>1, <2>1, <2>2, FileChanges
<1>2. FeedInv /\ [Next]_feedVars =>
         [\A n \in Names :
             File(n)' # File(n) =>
                 \/ pc' = pc
                 \/ \E w \in Workers :
                       /\ name[w] = n /\ pc'[w] # pc[w]
                       /\ Current(n) = seen[w]
                       /\ File(n)' = want[w]]_feedVars
  BY <1>1
<1> QED
  BY <1>2, FeedInvariant, PTL DEF Spec, SwitchesOnce

\* importLegacy writes a feed's file only where there was none, and never after
\* its marker, however often it is interrupted.
THEOREM ImportsKeepFiles == Spec => ImportKeepsFiles
<1>1. ASSUME FeedInv, [Next]_feedVars, NEW n \in Names, File(n)' # File(n),
             server = "importing"
      PROVE  File(n) = NoFile /\ ~marker
  <2>1. ~marker
    BY <1>1 DEF FeedInv, Export
  <2>2. ImportFile
    <3>1. \A w \in Workers : pc[w] = "idle"
      BY <1>1, NobodySaves DEF FeedInv
    <3> QED
      BY <1>1, <3>1, FileChanges DEF Write, Remove
  <2>3. pub \in [Names -> Contents \cup {Absent}] /\ off \in [Names -> Contents \cup {Absent}]
    BY <1>1 DEF FeedInv, FeedTypeOK
  <2>4. pub[n] = Absent /\ off[n] = Absent
    <3>1. pub'[n] # pub[n] \/ off'[n] # off[n]
      BY <1>1 DEF File
    <3>2. exporting = n
      BY <2>2, <2>3, <3>1 DEF ImportFile, AtomicWrite
    <3> QED
      BY <2>2, <3>1, <3>2 DEF ImportFile
  <2> QED
    BY <2>1, <2>4 DEF File, NoFile
<1>2. FeedInv /\ [Next]_feedVars =>
         [\A n \in Names :
             File(n)' # File(n) /\ server = "importing" => File(n) = NoFile /\ ~marker]_feedVars
  BY <1>1
<1> QED
  BY <1>2, FeedInvariant, PTL DEF Spec, ImportKeepsFiles

\* No save and no start loses an entry of a history or uses a number twice.
THEOREM HistoriesOnlyGrow == Spec => HistoryOnlyGrows
<1>1. ASSUME FeedInv, [Next]_feedVars, NEW n \in Names, side'[n] # side[n]
      PROVE  \/ side[n] = << >> /\ side'[n] = Legacy[n]
             \/ /\ side'[n] = Append(side[n], Last(side'[n]))
                /\ Last(side'[n]).revision = Revision(side[n]) + 1
  <2>1. Next /\ side' # side
    BY <1>1 DEF feedVars, disk
  <2>2. side \in [Names -> Seq(Entry)]
    BY <1>1 DEF FeedInv, FeedTypeOK
  <2>3. ASSUME NEW k \in Names, ImportSidecar(k)
        PROVE  side[n] = << >> /\ side'[n] = Legacy[n]
    BY <1>1, <2>2, <2>3 DEF ImportSidecar, AtomicWrite
  <2>4. ASSUME NEW w \in Workers, Record(w)
        PROVE  /\ side'[n] = Append(side[n], Last(side'[n]))
               /\ Last(side'[n]).revision = Revision(side[n]) + 1
    <3>1. /\ NewEntry(w) \in Entry
          /\ NewEntry(w).revision = Revision(side[name[w]]) + 1
          /\ side' = [side EXCEPT ![name[w]] = Append(side[name[w]], NewEntry(w))]
      BY <1>1, <2>4, RecordAppends
    <3>2. name[w] = n /\ side'[n] = Append(side[n], NewEntry(w)) /\ side[n] \in Seq(Entry)
      BY <1>1, <2>2, <3>1
    <3>3. Last(side'[n]) = NewEntry(w)
      BY <3>1, <3>2, AppendProperties, LenProperties DEF Last
    <3> QED
      BY <3>1, <3>2, <3>3
  <2> QED
    BY <1>1, <2>1, <2>3, <2>4, SidecarsChange
<1>2. FeedInv /\ [Next]_feedVars =>
         [\A n \in Names :
             side'[n] # side[n] =>
                 \/ side[n] = << >> /\ side'[n] = Legacy[n]
                 \/ /\ side'[n] = Append(side[n], Last(side'[n]))
                    /\ Last(side'[n]).revision = Revision(side[n]) + 1]_feedVars
  BY <1>1
<1> QED
  BY <1>2, FeedInvariant, PTL DEF Spec, HistoryOnlyGrows

\* The answer of SaveUpdateFeed shows what was submitted, under the number the
\* history gives it.
THEOREM SavesAreSaved == Spec => SavedMeansSaved
<1>1. ASSUME FeedInv, [Next]_feedVars, NEW w \in Workers,
             phase[w] = "confirm", pc'[w] = "edit"
      PROVE  seen'[w] = NewEntry(w) /\ Last(side[name[w]]) = NewEntry(w)
  <2>1. ReadSideConfirm(w)
    <3>1. pc[w] \in Reads /\ pc \in [Workers -> Labels]
      BY <1>1 DEF FeedInv, FeedTypeOK, Control, ControlAt
    <3>2. pc'[w] # pc[w] /\ Next
      BY <1>1, <3>1 DEF Reads, feedVars, worker
    <3>3. \E v \in Workers : ReadSideLoad(v) \/ ReadSideConfirm(v)
      BY <1>1, <3>1, <3>2
         DEF Next, Start, ImportSidecar, ImportFile, ImportDone, Crash, Unpublish, Publish, Load,
             Submit, Lock, Fail, Conflict, Idle, Advance, ReadPub, ReadOff, ReadSideCheck, Accept,
             Write, Remove, Record, Goto, worker
    <3>4. PICK v \in Workers : ReadSideLoad(v) \/ ReadSideConfirm(v)
      BY <3>3
    <3>5. v = w
      BY <3>1, <3>2, <3>4 DEF ReadSideLoad, ReadSideConfirm, Goto
    <3> QED
      BY <1>1, <3>4, <3>5 DEF ReadSideLoad
  <2>2. PICK n \in Names : name[w] = n
    BY <1>1, <2>1 DEF FeedInv, Control, ControlAt, ReadSideConfirm
  <2>3. /\ file[w] = want[w]
        /\ side[n] = Append(hist[w], NewEntry(w))
        /\ want[w] \in Submitted /\ FeedTypeOK
    BY <1>1, <2>1, <2>2
       DEF FeedInv, Control, ControlAt, View, ViewAt, ConfirmView, ReadSideConfirm
  <2>4. Last(side[n]) = NewEntry(w) /\ side[n] # << >>
    <3>1. hist[w] \in Seq(Entry) /\ Revision(hist[w]) + 1 = NewEntry(w).revision
      BY <1>1, <2>3 DEF FeedTypeOK, NewEntry, Shown
    <3> QED
      BY <2>3, <3>1, AppendProperties, LenProperties DEF Last
  <2>5. Revision(side[n]) = Revision(hist[w]) + 1
    BY <2>4 DEF Revision, NewEntry, Shown
  <2>6. Assembled(w, side[n]) = NewEntry(w)
    BY <2>3, <2>5, FeedAssumption DEF Assembled, NewEntry, Submitted, NoFile
  <2> QED
    BY <1>1, <2>1, <2>2, <2>3, <2>4, <2>6 DEF ReadSideConfirm, FeedTypeOK
<1>2. FeedInv /\ [Next]_feedVars =>
         [\A w \in Workers :
             phase[w] = "confirm" /\ pc'[w] = "edit" =>
                 /\ seen'[w] = NewEntry(w)
                 /\ Last(side[name[w]]) = NewEntry(w)]_feedVars
  BY <1>1
<1> QED
  BY <1>2, FeedInvariant, PTL DEF Spec, SavedMeansSaved

-----------------------------------------------------------------------------
(* The directory implements FeedStore.  Two more facts are needed: an idle   *)
(* request remembers nothing, and the import has left a file for every feed  *)
(* it is through with.                                                       *)

Blank == \A w \in Workers : pc[w] = "idle" => seen[w] = NotFound /\ want[w] = NoFile

Filled == server = "importing" => \A n \in LegacyNames \ todo : File(n) # NoFile

StoreInv == FeedInv /\ Blank /\ Filled

\* The values of FeedStore under the mapping are those of the directory.
LEMMA StoreTerms ==
    /\ Store!NoFile = NoFile
    /\ \A found, r : Store!With(found, r) = Shown(found, r)
    /\ Store!With(Store!NoFile, 0) = NotFound
    /\ \A h : Store!Number(h) = Revision(h)
    /\ \A n \in Names : Store!Value(n) = Current(n)
BY DEF Store!NoFile, NoFile, Store!With, Shown, NotFound, Store!Number, Revision, Last,
       Store!Value, Current, shownBar

\* An idle request remembers nothing.
LEMMA BlankStep ==
    ASSUME FeedInv, Blank, [Next]_feedVars
    PROVE  Blank'
<1>0. FeedTypeOK
  BY DEF FeedInv
<1>1. CASE UNCHANGED worker
  BY <1>1 DEF Blank, worker
<1>2. CASE Crash
  BY <1>2 DEF Blank, Crash
<1>3. ASSUME NEW w \in Workers, Conflict(w) \/ Fail(w) PROVE Blank'
  <2>1. Idle(w)
    BY <1>3 DEF Conflict, Fail
  <2> QED
    BY <1>0, <2>1 DEF FeedTypeOK, Blank, Idle, Goto
<1>4. ASSUME NEW w \in Workers, NEW n \in Names, Load(w, n) PROVE Blank'
  BY <1>0, <1>4 DEF FeedTypeOK, Blank, Load, Goto
<1>5. ASSUME NEW w \in Workers, NEW m \in Manifests, NEW b \in BOOLEAN, Submit(w, m, b)
      PROVE  Blank'
  BY <1>0, <1>5 DEF FeedTypeOK, Blank, Submit, Goto
<1>6. ASSUME NEW w \in Workers,
             \/ Lock(w) \/ ReadPub(w) \/ ReadOff(w) \/ ReadSideCheck(w) \/ Accept(w)
             \/ Write(w) \/ Remove(w) \/ Record(w)
      PROVE  Blank'
  <2>1. UNCHANGED <<seen, want>> /\ \E l \in Labels \ {"idle"} : Goto(w, l)
    BY <1>6 DEF Lock, ReadPub, ReadOff, ReadSideCheck, Accept, Write, Remove, Record, Labels
  <2> QED
    BY <1>0, <2>1 DEF FeedTypeOK, Blank, Goto
<1>7. ASSUME NEW w \in Workers, ReadSideLoad(w) \/ ReadSideConfirm(w) PROVE Blank'
  BY <1>0, <1>7 DEF FeedTypeOK, Blank, ReadSideLoad, ReadSideConfirm, Goto
<1>8. CASE Start \/ ImportFile \/ ImportDone \/ \E n \in Names : ImportSidecar(n)
  BY <1>1, <1>8 DEF Start, ImportFile, ImportDone, ImportSidecar
<1>9. CASE \E n \in Names : Unpublish(n) \/ \E c \in Contents : Publish(n, c)
  BY <1>1, <1>9 DEF Unpublish, Publish
<1>10. CASE UNCHANGED feedVars
  BY <1>1, <1>10 DEF feedVars
<1> QED
  BY <1>2, <1>3, <1>4, <1>5, <1>6, <1>7, <1>8, <1>9, <1>10 DEF Next, Advance

\* A feed has a file if and only if one of its two files is there.
LEMMA FileThere ==
    ASSUME NEW n \in Names
    PROVE  File(n) = NoFile <=> pub[n] = Absent /\ off[n] = Absent
BY DEF File, NoFile

\* What the import puts in an empty place.
LEMMA ImportFills ==
    ASSUME FeedInv, ImportFile
    PROVE  /\ exporting \in LegacyNames /\ exporting \in todo /\ ~marker
           /\ \A n \in Names : n # exporting \/ File(n) # NoFile => File(n)' = File(n)
           /\ \A n \in Names : n = exporting /\ File(n) = NoFile =>
                 LET current == Legacy[n][LegacyCurrent[n]]
                 IN  File(n)' = [content |-> current.content, enabled |-> current.enabled]
           /\ \A n \in Names : n = exporting => File(n)' # NoFile
<1>1. /\ exporting \in todo /\ exporting \in LegacyNames /\ ~marker /\ FeedTypeOK
      /\ exporting \in Names
  BY DEF FeedInv, FeedTypeOK, Export, ImportFile, LegacyNames
<1>2. PICK k \in Names : k = exporting
  BY <1>1
<1>3. PICK e \in Entry : e = Legacy[k][LegacyCurrent[k]]
  <2>1. Legacy[k] \in Seq(Entry) /\ LegacyCurrent[k] \in DOMAIN Legacy[k]
    BY <1>1, <1>2, FeedAssumption DEF LegacyNames
  <2> QED
    BY <2>1, ElementOfSeq, LenProperties
<1>4. e.content \in Contents /\ e.content # Absent /\ e.enabled \in BOOLEAN
  BY FeedAssumption DEF Entry
<1>5. /\ pub \in [Names -> Contents \cup {Absent}] /\ off \in [Names -> Contents \cup {Absent}]
      /\ pub' = IF (pub[k] = Absent /\ off[k] = Absent) /\ e.enabled
                THEN [pub EXCEPT ![k] = e.content] ELSE pub
      /\ off' = IF (pub[k] = Absent /\ off[k] = Absent) /\ ~e.enabled
                THEN [off EXCEPT ![k] = e.content] ELSE off
  BY <1>1, <1>2, <1>3 DEF FeedTypeOK, ImportFile, AtomicWrite
<1>6. \A n \in Names : n # k => File(n)' = File(n)
  BY <1>5 DEF File
<1>7. CASE pub[k] = Absent /\ off[k] = Absent
  <2>1. CASE e.enabled
    <3>1. pub'[k] = e.content
      BY <1>5, <1>7, <2>1
    <3>2. File(k)' = [content |-> e.content, enabled |-> e.enabled]
      BY <1>4, <2>1, <3>1 DEF File
    <3> QED
      BY <1>1, <1>2, <1>3, <1>4, <1>6, <1>7, <3>2, FileThere DEF NoFile
  <2>2. CASE ~e.enabled
    <3>1. pub'[k] = Absent /\ off'[k] = e.content
      BY <1>5, <1>7, <2>2
    <3>2. File(k)' = [content |-> e.content, enabled |-> e.enabled]
      BY <1>4, <2>2, <3>1 DEF File
    <3> QED
      BY <1>1, <1>2, <1>3, <1>4, <1>6, <1>7, <3>2, FileThere DEF NoFile
  <2> QED
    BY <2>1, <2>2
<1>8. CASE ~(pub[k] = Absent /\ off[k] = Absent)
  <2>1. File(k)' = File(k) /\ File(k) # NoFile
    BY <1>5, <1>8, FileThere DEF File
  <2> QED
    BY <1>1, <1>2, <1>6, <2>1
<1> QED
  BY <1>7, <1>8

\* The import is through with a feed only when the feed has a file.
LEMMA FilledStep ==
    ASSUME FeedInv, Filled, [Next]_feedVars
    PROVE  Filled'
<1>1. CASE UNCHANGED <<pub, off, server, todo>>
  BY <1>1 DEF Filled, File
<1>2. CASE server' # "importing"
  BY <1>2 DEF Filled
<1>3. CASE Start
  <2>1. server' = "importing" => todo' = LegacyNames
    BY <1>3 DEF Start
  <2> QED
    BY <2>1 DEF Filled
<1>4. CASE ImportFile
  <2>1. server = "importing" /\ todo' = todo \ {exporting}
    BY <1>4 DEF ImportFile
  <2>2. ASSUME NEW n \in LegacyNames \ todo' PROVE File(n)' # NoFile
    <3>0. n \in Names
      BY DEF LegacyNames
    <3>1. CASE n = exporting
      BY <1>4, <3>0, <3>1, ImportFills
    <3>2. CASE n # exporting
      BY <1>4, <2>1, <3>0, <3>2, ImportFills DEF Filled
    <3> QED
      BY <3>1, <3>2
  <2> QED
    BY <2>2 DEF Filled
<1>5. CASE \E n \in Names : ImportSidecar(n)
  BY <1>1, <1>5 DEF ImportSidecar
<1>6. CASE ImportDone \/ Crash
  BY <1>2, <1>6 DEF ImportDone, Crash
<1>7. CASE \E n \in Names : Unpublish(n) \/ \E c \in Contents : Publish(n, c)
  BY <1>2, <1>7 DEF Unpublish, Publish, Coordinated, import
<1>8. ASSUME NEW w \in Workers, pc[w] # "idle", UNCHANGED import PROVE Filled'
  <2>1. server = "serving"
    BY <1>8 DEF FeedInv, Control, ControlAt
  <2> QED
    BY <1>2, <1>8, <2>1 DEF import
<1>9. ASSUME NEW w \in Workers,
             \/ \E m \in Manifests, b \in BOOLEAN : Submit(w, m, b)
             \/ Lock(w) \/ Advance(w) \/ Fail(w)
      PROVE  Filled'
  <2>1. pc[w] # "idle" /\ UNCHANGED import
    BY <1>9 DEF Submit, Lock, Fail, Advance, ReadPub, ReadOff, ReadSideLoad, ReadSideCheck,
                ReadSideConfirm, Accept, Conflict, Write, Remove, Record
  <2> QED
    BY <1>8, <2>1
<1>10. ASSUME NEW w \in Workers, NEW n \in Names, Load(w, n) PROVE Filled'
  BY <1>1, <1>10 DEF Load, disk, import
<1>11. CASE UNCHANGED feedVars
  BY <1>1, <1>11 DEF feedVars, disk, import
<1> QED
  BY <1>3, <1>4, <1>5, <1>6, <1>7, <1>9, <1>10, <1>11 DEF Next

\* How far a save is, by its phase.
LEMMA StageValues ==
    ASSUME FeedInv, NEW w \in Workers
    PROVE  /\ phase[w] = "load" => Stage(w) = IF pc[w] = "lock" THEN "submitted"
                                              ELSE IF pc[w] = "edit" THEN "open" ELSE "away"
           /\ phase[w] = "check" => Stage(w) = IF TookEffect(w) THEN "switched" ELSE "submitted"
           /\ phase[w] = "confirm" => Stage(w) = "logged"
           /\ Stage(w) # "away" => name[w] \in Names /\ marker /\ pc[w] # "idle"
           /\ Stage(w) \in {"switched", "logged"} => mutex = w
<1>1. ControlAt(w) /\ phase[w] \in Phases /\ (server = "serving" => marker)
  BY DEF FeedInv, FeedTypeOK, Control, Export
<1>2. CASE phase[w] = "load"
  BY <1>1, <1>2 DEF ControlAt, Stage, TookEffect, Reads
<1>3. CASE phase[w] = "check"
  BY <1>1, <1>3 DEF ControlAt, Stage, Reads
<1>4. CASE phase[w] = "confirm"
  BY <1>1, <1>4 DEF ControlAt, Stage, Reads
<1> QED
  BY <1>1, <1>2, <1>3, <1>4 DEF Phases

\* A request that does not move stays where it is.
LEMMA StageKept ==
    ASSUME FeedInv, NEW v \in Workers,
           pc'[v] = pc[v], phase'[v] = phase[v], name'[v] = name[v], want'[v] = want[v],
           phase[v] = "load" \/ pub' = pub
    PROVE  Stage(v)' = Stage(v)
<1>1. phase[v] = "load" => pc[v] \notin {"record", "remove"}
  BY DEF FeedInv, Control, ControlAt, Reads
<1> QED
  BY <1>1 DEF Stage, TookEffect

\* A step that the store does not see.
LEMMA Unseen ==
    ASSUME UNCHANGED <<side, seen, want, importBar>>,
           \A n \in Names : File(n)' = File(n),
           \A v \in Workers : Stage(v)' = Stage(v),
           \A v \in Workers : Stage(v) # "away" => name'[v] = name[v]
    PROVE  UNCHANGED Store!storeVars
<1>1. UNCHANGED <<shownBar, stageBar, onBar>>
  BY DEF shownBar, stageBar, onBar
<1> QED
  BY <1>1 DEF Store!storeVars, Store!store, Store!editor

\* Worker w moves to stage x of its save, on the feed it is about.
LEMMA StageMoves ==
    ASSUME NEW w \in Workers, NEW x, Stage(w)' = x, name' = name,
           \A v \in Workers \ {w} : Stage(v)' = Stage(v)
    PROVE  /\ stageBar' = [stageBar EXCEPT ![w] = x]
           /\ Stage(w) # "away" /\ x # "away" => onBar' = onBar
           /\ Stage(w) = "away" /\ x # "away" => onBar' = [onBar EXCEPT ![w] = name[w]]
BY DEF stageBar, onBar

\* Starts and the import.
LEMMA StartRefines ==
    ASSUME StoreInv, Start
    PROVE  Store!BeginImport \/ UNCHANGED Store!storeVars
<1>1. UNCHANGED <<shownBar, stageBar, onBar, side, seen, want>>
  BY DEF Start, disk, worker, shownBar, File, stageBar, onBar, Stage, TookEffect
<1>2. CASE marker
  <2>1. UNCHANGED importBar
    BY <1>2 DEF Start, disk, importBar
  <2> QED
    BY <1>1, <2>1 DEF Store!storeVars, Store!store, Store!editor
<1>3. CASE ~marker
  <2>1. importBar = "due" /\ importBar' = "running"
    BY <1>3 DEF Start, disk, importBar
  <2> QED
    BY <1>1, <2>1 DEF Store!BeginImport, Store!editor
<1> QED
  BY <1>2, <1>3

LEMMA ImportSidecarRefines ==
    ASSUME StoreInv, NEW n \in Names, ImportSidecar(n)
    PROVE  Store!ImportLog(n) \/ UNCHANGED Store!storeVars
<1>1. UNCHANGED <<shownBar, importBar, stageBar, onBar, seen, want>>
  BY DEF ImportSidecar, worker, shownBar, File, importBar, stageBar, onBar, Stage, TookEffect
<1>2. importBar = "running"
  BY DEF ImportSidecar, StoreInv, FeedInv, Export, importBar
<1>3. CASE side[n] = << >>
  BY <1>1, <1>2, <1>3 DEF ImportSidecar, AtomicWrite, Store!ImportLog, Store!editor
<1>4. CASE side[n] # << >>
  BY <1>1, <1>4 DEF ImportSidecar, Store!storeVars, Store!store, Store!editor
<1> QED
  BY <1>3, <1>4

LEMMA ImportFileRefines ==
    ASSUME StoreInv, ImportFile
    PROVE  (\E n \in Names : Store!ImportValue(n)) \/ UNCHANGED Store!storeVars
<1>0. FeedInv
  BY DEF StoreInv
<1>1. UNCHANGED <<importBar, side, seen, want, worker>> /\ mutex = None
  BY <1>0, NobodySaves DEF FeedInv, ImportFile, worker, importBar
<1>2. \A v \in Workers : Stage(v)' = Stage(v)
  BY <1>0, <1>1, StageKept, NobodySaves DEF FeedInv, ImportFile, worker
<1>3. UNCHANGED <<stageBar, onBar>>
  BY <1>1, <1>2 DEF stageBar, onBar, worker
<1>4. PICK n \in Names : n = exporting /\ n \in LegacyNames /\ ~marker
  BY <1>0, ImportFills DEF LegacyNames
<1>5. \A k \in Names : k # n \/ File(k) # NoFile => File(k)' = File(k)
  BY <1>0, <1>4, ImportFills
<1>6. CASE File(n) = NoFile
  <2> DEFINE current == Legacy[n][LegacyCurrent[n]]
  <2>1. File(n)' = [content |-> current.content, enabled |-> current.enabled]
    BY <1>0, <1>4, <1>6, ImportFills
  <2>2. shownBar[n] = NoFile
        /\ shownBar' = [shownBar EXCEPT ![n] = [content |-> current.content,
                                                enabled |-> current.enabled]]
    BY <1>5, <1>6, <2>1 DEF shownBar
  <2>3. importBar = "running" /\ Legacy[n] # << >>
    BY <1>4 DEF ImportFile, importBar, LegacyNames
  <2>4. Store!ImportValue(n)
    BY <1>1, <1>3, <2>2, <2>3, StoreTerms DEF Store!ImportValue, Store!editor
  <2> QED
    BY <2>4
<1>7. CASE File(n) # NoFile
  <2>1. UNCHANGED shownBar
    BY <1>5, <1>7 DEF shownBar
  <2> QED
    BY <1>1, <1>3, <2>1 DEF Store!storeVars, Store!store, Store!editor
<1> QED
  BY <1>6, <1>7

LEMMA ImportDoneRefines ==
    ASSUME StoreInv, ImportDone
    PROVE  Store!Imported
<1>0. FeedInv /\ FeedTypeOK /\ Export /\ Filled /\ ~marker
  BY DEF StoreInv, FeedInv, Export, ImportDone
<1>1. UNCHANGED <<shownBar, stageBar, onBar, side, seen, want>>
  BY DEF ImportDone, worker, shownBar, File, stageBar, onBar, Stage, TookEffect
<1>2. importBar = "running" /\ importBar' = "done"
  BY <1>0 DEF ImportDone, importBar
<1>3. ASSUME NEW n \in Names
      PROVE  side[n] = Legacy[n] /\ (Legacy[n] # << >> => shownBar[n] # NoFile)
  <2>1. side[n] \in {<< >>, Legacy[n]} /\ Legacy[n] \in Seq(Entry)
    BY <1>0, FeedAssumption DEF Export
  <2>2. CASE n \in LegacyNames
    <3>1. Exported(n) /\ File(n) # NoFile
      BY <1>0, <2>2 DEF Export, Filled, ImportDone
    <3>2. Len(Legacy[n]) \in Nat \ {0}
      BY <2>1, <2>2, EmptySeq, LenProperties DEF LegacyNames
    <3>3. side[n] # << >>
      BY <3>1, <3>2, EmptySeq DEF Exported
    <3> QED
      BY <2>1, <3>1, <3>3 DEF shownBar
  <2>3. CASE n \notin LegacyNames
    BY <2>1, <2>3 DEF LegacyNames
  <2> QED
    BY <2>2, <2>3
<1> QED
  BY <1>1, <1>2, <1>3, StoreTerms DEF Store!Imported, Store!editor

\* A crash ends the import or every request.
LEMMA CrashRefines ==
    ASSUME StoreInv, Crash
    PROVE  Store!Interrupt \/ (\E S \in SUBSET Workers : Store!Leave(S))
           \/ UNCHANGED Store!storeVars
<1>0. FeedInv /\ FeedTypeOK /\ Export /\ Blank
  BY DEF StoreInv, FeedInv
<1>1. UNCHANGED <<shownBar, side, marker>>
  BY DEF Crash, disk, shownBar, File
<1>2. \A v \in Workers : Stage(v)' = "away"
  BY DEF Crash, Stage, TookEffect
<1>3. /\ stageBar' = [w \in Workers |-> "away"] /\ onBar' = [w \in Workers |-> None]
      /\ seen' = [w \in Workers |-> NotFound] /\ want' = [w \in Workers |-> NoFile]
  BY <1>2 DEF Crash, stageBar, onBar
<1>4. CASE server = "importing"
  <2>1. importBar = "running" /\ importBar' = "due"
    BY <1>0, <1>1, <1>4 DEF Export, Crash, importBar
  <2>2. \A v \in Workers : pc[v] = "idle" /\ Stage(v) = "away"
    BY <1>0, <1>4, NobodySaves, StageValues DEF FeedInv
  <2>3. stageBar' = stageBar /\ onBar' = onBar
    BY <1>3, <2>2 DEF stageBar, onBar
  <2>4. seen' = seen /\ want' = want
    BY <1>0, <1>3, <2>2 DEF Blank, FeedTypeOK
  <2> QED
    BY <1>1, <2>1, <2>3, <2>4 DEF Store!Interrupt, Store!editor
<1>5. CASE server # "importing"
  <2>1. UNCHANGED importBar
    BY <1>0, <1>1, <1>5 DEF Export, Crash, importBar
  <2>2. Store!Leave(Workers)
    BY <1>1, <1>3, <2>1, StoreTerms DEF Store!Leave, Store!store
  <2> QED
    BY <2>2
<1> QED
  BY <1>4, <1>5

\* Somebody replaces or removes a file.
LEMMA ByHandRefines ==
    ASSUME StoreInv, NEW n \in Names,
           Unpublish(n) \/ \E c \in Contents : Publish(n, c)
    PROVE  \E f \in Store!Found : Store!ByHand(n, f)
<1>0. FeedInv /\ FeedTypeOK /\ FeedInv'
  BY ByHandInv DEF StoreInv, FeedInv
<1>1. /\ mutex = None /\ server # "importing" /\ UNCHANGED <<off, side, marker, import, worker>>
      /\ \A k \in Names \ {n} : pub'[k] = pub[k]
  BY <1>0 DEF FeedTypeOK, Unpublish, Publish, Coordinated
<1>2. \A v \in Workers : phase[v] = "load"
  BY <1>0, <1>1, OthersLoad, FeedAssumption DEF FeedInv
<1>3. \A v \in Workers : Stage(v)' = Stage(v)
  BY <1>0, <1>1, <1>2, StageKept DEF worker
<1>4. UNCHANGED <<stageBar, onBar, importBar, seen, want>> /\ importBar # "running"
  BY <1>1, <1>3 DEF stageBar, onBar, importBar, worker, import
<1>5. Store!Settled
  BY <1>0, <1>2, StageValues DEF Store!Settled, stageBar
<1>6. \A k \in Names \ {n} : File(k)' = File(k)
  BY <1>1 DEF File
<1>7. PICK f \in Found : File(n)' = f
  <2>1. FeedTypeOK'
    BY <1>0 DEF FeedInv
  <2>2. (File(n) \in Found)'
    BY <2>1 DEF FeedTypeOK, File, Found
  <2> QED
    BY <2>2 DEF Found
<1>8. shownBar' = [shownBar EXCEPT ![n] = f]
  BY <1>6, <1>7 DEF shownBar
<1>9. f \in Store!Found
  BY DEF Store!Found, Found
<1> QED
  BY <1>1, <1>4, <1>5, <1>8, <1>9 DEF Store!ByHand, Store!editor

\* Steps of a request that leave the directory alone: the others keep their
\* stage, and so do the feeds.
LEMMA AloneStages ==
    ASSUME FeedInv, NEW w \in Workers, Alone(w)
    PROVE  /\ \A v \in Workers \ {w} : Stage(v)' = Stage(v) /\ name'[v] = name[v]
           /\ \A n \in Names : File(n)' = File(n)
           /\ UNCHANGED <<side, shownBar, importBar>>
<1>1. \A v \in Workers \ {w} : Stage(v)' = Stage(v) /\ name'[v] = name[v]
  BY StageKept DEF Alone, disk
<1>2. \A n \in Names : File(n)' = File(n)
  BY AloneFrame
<1> QED
  BY <1>1, <1>2 DEF Alone, disk, import, shownBar, importBar

\* Loading, waiting, reading and comparing are not seen.
LEMMA ReadingRefines ==
    ASSUME StoreInv, NEW w \in Workers,
           \/ \E n \in Names : Load(w, n)
           \/ ReadPub(w) \/ ReadOff(w) \/ Lock(w) \/ ReadSideCheck(w) \/ Accept(w)
    PROVE  UNCHANGED Store!storeVars
<1>0. FeedInv /\ FeedTypeOK /\ ControlAt(w)
  BY DEF StoreInv, FeedInv, Control
<1>1. Alone(w)
  BY <1>0, FeedAssumption
     DEF FeedTypeOK, Load, ReadPub, ReadOff, Lock, ReadSideCheck, Accept, Goto, Alone
<1>2. UNCHANGED <<seen, want>>
  BY DEF Load, ReadPub, ReadOff, Lock, ReadSideCheck, Accept
<1>3. Stage(w)' = Stage(w) /\ (Stage(w) # "away" => name'[w] = name[w])
  <2>1. CASE \E n \in Names : Load(w, n)
    <3>1. pc[w] = "idle" /\ pc'[w] = "readPub" /\ phase'[w] = phase[w] /\ phase[w] = "load"
      BY <1>0, <2>1 DEF FeedTypeOK, ControlAt, Load, Goto, Phases, Reads
    <3> QED
      BY <3>1 DEF Stage, TookEffect
  <2>2. CASE ReadPub(w) \/ ReadOff(w)
    <3>1. /\ pc[w] \in Reads /\ pc'[w] \in Reads /\ phase'[w] = phase[w] /\ name'[w] = name[w]
      BY <1>0, <2>2 DEF FeedTypeOK, ReadPub, ReadOff, Goto, Reads
    <3> QED
      BY <3>1 DEF Stage, TookEffect, Reads
  <2>3. CASE Lock(w)
    <3>1. /\ pc[w] = "lock" /\ pc'[w] = "readPub" /\ phase'[w] = "check" /\ phase[w] = "load"
          /\ name'[w] = name[w]
      BY <1>0, <2>3 DEF FeedTypeOK, ControlAt, Lock, Goto, Phases, Reads
    <3> QED
      BY <3>1 DEF Stage, TookEffect
  <2>4. CASE ReadSideCheck(w) \/ Accept(w)
    <3>1. /\ pc[w] \in {"readSide", "compare"} /\ pc'[w] \in {"compare", "write"}
          /\ phase'[w] = phase[w] /\ phase[w] = "check" /\ name'[w] = name[w]
      BY <1>0, <2>4 DEF FeedTypeOK, ControlAt, ReadSideCheck, Accept, Goto, Phases, Reads
    <3> QED
      BY <3>1 DEF Stage, TookEffect
  <2> QED
    BY <2>1, <2>2, <2>3, <2>4
<1> QED
  BY <1>0, <1>1, <1>2, <1>3, AloneStages, Unseen

\* adminUpdateDetail answers: the editor opens the feed.
LEMMA OpenRefines ==
    ASSUME StoreInv, NEW w \in Workers, ReadSideLoad(w)
    PROVE  \E n \in Names :
              \E s \in [content: Contents \cup {Absent}, enabled: BOOLEAN,
                       revision: {Store!Number(side[n]), 0}] : Store!Open(w, n, s)
<1>0. FeedInv /\ FeedTypeOK /\ ControlAt(w)
  BY DEF StoreInv, FeedInv, Control
<1>1. Alone(w) /\ name' = name /\ UNCHANGED want
  BY <1>0 DEF FeedTypeOK, ReadSideLoad, Goto, Alone
<1>2. /\ pc[w] = "readSide" /\ phase[w] = "load" /\ pc'[w] = "edit" /\ phase'[w] = "load"
      /\ name[w] \in Names /\ marker
  BY <1>0 DEF FeedTypeOK, ControlAt, ReadSideLoad, Goto, FeedInv, Export
<1>3. Stage(w) = "away" /\ Stage(w)' = "open"
  BY <1>2 DEF Stage, TookEffect
<1>4. stageBar' = [stageBar EXCEPT ![w] = "open"] /\ onBar' = [onBar EXCEPT ![w] = name[w]]
  BY <1>0, <1>1, <1>3, StageMoves, AloneStages
<1>5. importBar = "done" /\ stageBar[w] = "away"
  BY <1>2, <1>3 DEF importBar, stageBar
<1>6. PICK n \in Names : n = name[w]
  BY <1>2
<1>7. PICK s : s = Assembled(w, side[n])
  OBVIOUS
<1>8. s \in [content: Contents \cup {Absent}, enabled: BOOLEAN, revision: {Revision(side[n]), 0}]
  BY <1>0, <1>7 DEF FeedTypeOK, Found, Assembled, Shown, NotFound, NoFile
<1>9. seen' = [seen EXCEPT ![w] = s]
  BY <1>6, <1>7 DEF ReadSideLoad
<1>10. Store!Open(w, n, s)
  BY <1>0, <1>1, <1>4, <1>5, <1>6, <1>9, AloneStages DEF Store!Open, Store!store
<1> QED
  BY <1>8, <1>10, StoreTerms

\* The editor submits.
LEMMA SubmitRefines ==
    ASSUME StoreInv, NEW w \in Workers, NEW m \in Manifests, NEW b \in BOOLEAN, Submit(w, m, b)
    PROVE  Store!Submit(w, m, b)
<1>0. FeedInv /\ FeedTypeOK /\ ControlAt(w)
  BY DEF StoreInv, FeedInv, Control
<1>1. Alone(w) /\ name' = name /\ UNCHANGED seen
  BY <1>0 DEF FeedTypeOK, Submit, Goto, Alone
<1>2. pc[w] = "edit" /\ phase[w] = "load" /\ pc'[w] = "lock" /\ phase'[w] = "load"
  BY <1>0 DEF FeedTypeOK, ControlAt, Submit, Goto, Phases, Reads
<1>3. Stage(w) = "open" /\ Stage(w)' = "submitted"
  BY <1>2 DEF Stage, TookEffect
<1>4. stageBar' = [stageBar EXCEPT ![w] = "submitted"] /\ onBar' = onBar
  BY <1>0, <1>1, <1>3, StageMoves, AloneStages
<1>5. stageBar[w] = "open"
  BY <1>3 DEF stageBar
<1> QED
  BY <1>0, <1>1, <1>4, <1>5, AloneStages DEF Store!Submit, Submit, Store!store

\* Conflicts, errors and editors who give up.
LEMMA LeaveRefines ==
    ASSUME StoreInv, NEW w \in Workers, Conflict(w) \/ Fail(w)
    PROVE  Store!Leave({w})
<1>0. FeedInv /\ FeedTypeOK
  BY DEF StoreInv, FeedInv
<1>1. Alone(w)
  BY <1>0, FeedAssumption DEF FeedTypeOK, Conflict, Fail, Idle, Unlock, Goto, Alone
<1>2. Idle(w)
  BY DEF Conflict, Fail
<1>3. pc'[w] = "idle" /\ phase'[w] = "load"
  BY <1>0, <1>2 DEF FeedTypeOK, Idle, Goto
<1>4. Stage(w)' = "away"
  BY <1>3 DEF Stage, TookEffect
<1>5. \A v \in Workers \ {w} : Stage(v)' = Stage(v) /\ name'[v] = name[v]
  BY <1>0, <1>1, AloneStages
<1>6. /\ stageBar' = [v \in Workers |-> IF v \in {w} THEN "away" ELSE stageBar[v]]
      /\ onBar' = [v \in Workers |-> IF v \in {w} THEN None ELSE onBar[v]]
  BY <1>4, <1>5 DEF stageBar, onBar
<1>7. /\ seen' = [v \in Workers |-> IF v \in {w} THEN NotFound ELSE seen[v]]
      /\ want' = [v \in Workers |-> IF v \in {w} THEN NoFile ELSE want[v]]
  BY <1>0, <1>2 DEF FeedTypeOK, Idle
<1> QED
  BY <1>0, <1>1, <1>6, <1>7, AloneStages, StoreTerms DEF Store!Leave, Store!store

\* The answer to a save.
LEMMA AnswerRefines ==
    ASSUME StoreInv, NEW w \in Workers, ReadSideConfirm(w)
    PROVE  Store!Answer(w)
<1>0. FeedInv /\ FeedTypeOK /\ ControlAt(w) /\ ViewAt(w)
  BY DEF StoreInv, FeedInv, Control, View
<1>1. Alone(w) /\ name' = name
  BY <1>0, FeedAssumption DEF FeedTypeOK, ReadSideConfirm, Unlock, Goto, Alone
<1>2. /\ pc[w] = "readSide" /\ phase[w] = "confirm" /\ pc'[w] = "edit" /\ phase'[w] = "load"
      /\ name[w] \in Names /\ want[w] \in Submitted
  BY <1>0 DEF FeedTypeOK, ControlAt, ReadSideConfirm, Goto
<1>3. Stage(w) = "logged" /\ Stage(w)' = "open"
  BY <1>2 DEF Stage, TookEffect
<1>4. stageBar' = [stageBar EXCEPT ![w] = "open"] /\ onBar' = onBar
  BY <1>0, <1>1, <1>3, StageMoves, AloneStages
<1>5. PICK n \in Names : n = name[w]
  BY <1>2
<1>6. stageBar[w] = "logged" /\ onBar[w] = n
  BY <1>3, <1>5 DEF stageBar, onBar
<1>7. /\ file[w] = File(n) /\ File(n) = want[w] /\ hist[w] \in Seq(Entry)
      /\ side[n] = Append(hist[w], NewEntry(w))
  BY <1>0, <1>2, <1>5 DEF ViewAt, ConfirmView, FeedTypeOK
<1>8. side[n][Len(side[n])] = NewEntry(w) /\ side[n] # << >>
  BY <1>7, AppendProperties, LenProperties
<1>9. Assembled(w, side[n]) = Current(n)
  BY <1>7 DEF Assembled, Current
<1>10. Revision(side[n]) = NewEntry(w).revision /\ NewEntry(w).revision = Revision(hist[w]) + 1
  BY <1>8 DEF Revision, Last, NewEntry, Shown
<1>11. File(n) # NoFile
  BY <1>2, <1>7, FeedAssumption DEF Submitted, NoFile
<1>12. Current(n) = NewEntry(w)
  BY <1>7, <1>10, <1>11 DEF Current, NewEntry, Shown
<1>13. seen' = [seen EXCEPT ![w] = Current(n)] /\ want' = [want EXCEPT ![w] = NoFile]
  BY <1>5, <1>9 DEF ReadSideConfirm
<1>14. Store!Value(n) = Current(n) /\ Store!NoFile = NoFile
  BY StoreTerms
<1> QED
  BY <1>0, <1>1, <1>4, <1>6, <1>8, <1>12, <1>13, <1>14, AloneStages
     DEF Store!Answer, Store!store

\* While a worker saves, the others wait or read.
LEMMA SavingStages ==
    ASSUME FeedInv, NEW w \in Workers, NEW n \in Names, Saving(w, n)
    PROVE  /\ \A v \in Workers \ {w} : Stage(v)' = Stage(v)
           /\ \A v \in Workers \ {w} : Stage(v) \notin {"switched", "logged"}
           /\ importBar' = importBar
<1>1. ASSUME NEW v \in Workers \ {w}
      PROVE  Stage(v)' = Stage(v) /\ Stage(v) \notin {"switched", "logged"}
  <2>1. phase[v] = "load"
    BY OthersLoad DEF FeedInv, Saving
  <2>2. Stage(v)' = Stage(v)
    BY <2>1, StageKept DEF Saving
  <2>3. Stage(v) \notin {"switched", "logged"}
    BY <2>1, StageValues
  <2> QED
    BY <2>2, <2>3
<1>2. importBar' = importBar
  BY DEF Saving, import, importBar
<1> QED
  BY <1>1, <1>2

\* The step with which a save takes effect.
LEMMA SwitchRefines ==
    ASSUME FeedInv, NEW w \in Workers, NEW n \in Names, Saving(w, n), side' = side,
           Stage(w) = "submitted", Stage(w)' = "switched",
           Current(n) = seen[w], File(n)' = want[w],
           \A k \in Names \ {n} : File(k)' = File(k)
    PROVE  Store!Switch(w)
<1>1. /\ \A v \in Workers \ {w} : Stage(v)' = Stage(v) /\ Stage(v) \notin {"switched", "logged"}
      /\ importBar' = importBar
  BY SavingStages
<1>2. name' = name /\ name[w] = n /\ UNCHANGED <<seen, want>>
  BY DEF Saving
<1>3. stageBar' = [stageBar EXCEPT ![w] = "switched"] /\ onBar' = onBar
  BY <1>1, <1>2, StageMoves
<1>4. stageBar[w] = "submitted" /\ onBar[w] = n
  BY <1>2 DEF stageBar, onBar
<1>5. Store!Settled
  BY <1>1 DEF Store!Settled, stageBar
<1>6. shownBar' = [shownBar EXCEPT ![n] = want[w]]
  BY DEF shownBar
<1>7. Store!Value(n) = seen[w]
  BY StoreTerms
<1> QED
  BY <1>1, <1>2, <1>3, <1>4, <1>5, <1>6, <1>7 DEF Store!Switch

\* Write switches the feed, unless a public file hides the one it writes.
LEMMA WriteRefines ==
    ASSUME StoreInv, NEW w \in Workers, Write(w)
    PROVE  Store!Switch(w) \/ UNCHANGED Store!storeVars
<1>1. /\ FeedInv /\ FeedTypeOK
      /\ name[w] \in Names /\ phase[w] = "check" /\ mutex = w
      /\ want[w].content # Absent /\ CheckView(w, name[w])
      /\ want[w] = [content |-> want[w].content, enabled |-> want[w].enabled]
      /\ want[w].enabled \in BOOLEAN
  BY SaveContext DEF Write, StoreInv, FeedInv, Submitted
<1>2. PICK n \in Names : name[w] = n
  BY <1>1
<1>3. Saving(w, n) /\ side' = side
  BY <1>1, <1>2 DEF Saving, Write, Goto, FeedTypeOK
<1>4. pc[w] = "write" /\ pc'[w] = "remove" /\ phase' = phase /\ name' = name /\ want' = want
  BY <1>1 DEF Write, Goto, FeedTypeOK
<1>5. Stage(w) = "submitted"
  BY <1>1, <1>4 DEF Stage, TookEffect
<1>6. Current(n) = seen[w] /\ \A k \in Names \ {n} : File(k)' = File(k)
  BY <1>1, <1>2, <1>4, FilesSwitch DEF CheckView
<1>7. CASE want[w].enabled \/ pub[n] = Absent
  <2>1. CASE want[w].enabled
    <3>1. pub'[n] = want[w].content
      BY <1>1, <1>2, <2>1 DEF Write, AtomicWrite, FeedTypeOK
    <3>2. File(n)' = want[w]
      BY <1>1, <2>1, <3>1 DEF File
    <3>3. Stage(w)' = "switched"
      BY <1>1, <1>4, <2>1 DEF Stage, TookEffect
    <3> QED
      BY <1>1, <1>3, <1>5, <1>6, <3>2, <3>3, SwitchRefines
  <2>2. CASE ~want[w].enabled /\ pub[n] = Absent
    <3>1. pub' = pub /\ off'[n] = want[w].content
      BY <1>1, <1>2, <2>2 DEF Write, AtomicWrite, FeedTypeOK
    <3>2. File(n)' = want[w]
      BY <1>1, <2>2, <3>1 DEF File
    <3>3. Stage(w)' = "switched"
      BY <1>1, <1>2, <1>4, <2>2, <3>1 DEF Stage, TookEffect
    <3> QED
      BY <1>1, <1>3, <1>5, <1>6, <3>2, <3>3, SwitchRefines
  <2> QED
    BY <1>1, <1>7, <2>1, <2>2
<1>8. CASE ~want[w].enabled /\ pub[n] # Absent
  <2>1. pub' = pub
    BY <1>8 DEF Write
  <2>2. File(n)' = File(n)
    BY <1>8, <2>1 DEF File
  <2>3. Stage(w)' = "submitted"
    BY <1>1, <1>2, <1>4, <1>8, <2>1 DEF Stage, TookEffect
  <2>4. \A v \in Workers : Stage(v)' = Stage(v)
    BY <1>1, <1>3, <1>5, <2>3, SavingStages
  <2>5. UNCHANGED <<side, seen, want, importBar>>
    BY <1>1, <1>3, SavingStages DEF Saving
  <2> QED
    BY <1>4, <1>6, <2>2, <2>4, <2>5, Unseen
<1> QED
  BY <1>7, <1>8

\* Remove switches the feed if a public file has hidden the disabled one.
LEMMA RemoveRefines ==
    ASSUME StoreInv, NEW w \in Workers, Remove(w)
    PROVE  Store!Switch(w) \/ UNCHANGED Store!storeVars
<1>1. /\ FeedInv /\ FeedTypeOK
      /\ name[w] \in Names /\ phase[w] = "check" /\ mutex = w
      /\ want[w].content # Absent /\ CheckView(w, name[w])
      /\ want[w] = [content |-> want[w].content, enabled |-> want[w].enabled]
      /\ want[w].enabled \in BOOLEAN
  BY SaveContext DEF Remove, StoreInv, FeedInv, Submitted
<1>2. PICK n \in Names : name[w] = n
  BY <1>1
<1>3. Saving(w, n) /\ side' = side
  BY <1>1, <1>2 DEF Saving, Remove, Goto, FeedTypeOK
<1>4. pc[w] = "remove" /\ pc'[w] = "record" /\ phase' = phase /\ name' = name /\ want' = want
  BY <1>1 DEF Remove, Goto, FeedTypeOK
<1>5. Stage(w)' = "switched"
  BY <1>1, <1>4 DEF Stage, TookEffect
<1>6. \A k \in Names \ {n} : File(k)' = File(k)
  BY <1>1, <1>2, FilesSwitch
<1>7. CASE want[w].enabled \/ pub[n] = Absent
  <2>1. Stage(w) = "switched"
    BY <1>1, <1>2, <1>4, <1>7 DEF Stage, TookEffect
  <2>2. ASSUME want[w].enabled PROVE File(n)' = File(n)
    <3>1. pub' = pub /\ pub[n] = want[w].content
      BY <1>1, <1>2, <1>4, <2>2 DEF Remove, CheckView
    <3> QED
      BY <1>1, <3>1 DEF File
  <2>3. ASSUME ~want[w].enabled, pub[n] = Absent PROVE File(n)' = File(n)
    <3>1. off' = off /\ pub'[n] = Absent
      BY <1>1, <1>2, <2>3 DEF Remove, FeedTypeOK
    <3> QED
      BY <2>3, <3>1 DEF File
  <2>4. File(n)' = File(n)
    BY <1>1, <1>7, <2>2, <2>3
  <2>5. \A v \in Workers : Stage(v)' = Stage(v)
    BY <1>1, <1>3, <1>5, <2>1, SavingStages
  <2>6. UNCHANGED <<side, seen, want, importBar>>
    BY <1>1, <1>3, SavingStages DEF Saving
  <2> QED
    BY <1>4, <1>6, <2>4, <2>5, <2>6, Unseen
<1>8. CASE ~want[w].enabled /\ pub[n] # Absent
  <2>1. Stage(w) = "submitted"
    BY <1>1, <1>2, <1>4, <1>8 DEF Stage, TookEffect
  <2>2. off' = off /\ off[n] = want[w].content /\ Current(n) = seen[w]
    BY <1>1, <1>2, <1>4, <1>8 DEF Remove, CheckView
  <2>3. pub'[n] = Absent
    BY <1>1, <1>2, <1>8 DEF Remove, FeedTypeOK
  <2>4. File(n)' = want[w]
    BY <1>1, <1>8, <2>2, <2>3 DEF File
  <2> QED
    BY <1>1, <1>3, <1>5, <1>6, <2>1, <2>2, <2>4, SwitchRefines
<1> QED
  BY <1>7, <1>8

\* Record logs what was switched.
LEMMA RecordRefines ==
    ASSUME StoreInv, NEW w \in Workers, Record(w)
    PROVE  Store!Log(w)
<1>1. FeedInv /\ FeedTypeOK /\ name[w] \in Names /\ phase[w] = "check" /\ mutex = w
  BY SaveContext DEF Record, StoreInv, FeedInv
<1>2. PICK n \in Names : name[w] = n
  BY <1>1
<1>3. Saving(w, n)
  BY <1>1, <1>2 DEF Saving, Record, Goto, FeedTypeOK
<1>4. pc[w] = "record" /\ phase'[w] = "confirm" /\ name' = name /\ UNCHANGED <<seen, want>>
  BY <1>1 DEF Record, FeedTypeOK
<1>5. Stage(w) = "switched" /\ Stage(w)' = "logged"
  BY <1>1, <1>4 DEF Stage, TookEffect
<1>6. (\A v \in Workers \ {w} : Stage(v)' = Stage(v)) /\ importBar' = importBar
  BY <1>1, <1>3, SavingStages
<1>7. stageBar' = [stageBar EXCEPT ![w] = "logged"] /\ onBar' = onBar
  BY <1>4, <1>5, <1>6, StageMoves
<1>8. stageBar[w] = "switched" /\ onBar[w] = n
  BY <1>2, <1>5 DEF stageBar, onBar
<1>9. shownBar' = shownBar
  BY DEF Record, shownBar, File
<1>10. hist[w] = side[n] /\ side' = [side EXCEPT ![n] = Append(side[n], NewEntry(w))]
  BY <1>1, <1>2, RecordAppends
<1>11. NewEntry(w) = Store!With(want[w], Store!Number(side[n]) + 1)
  BY <1>10, StoreTerms DEF NewEntry
<1>12. side' = [side EXCEPT ![n] = Append(@, Store!With(want[w], Store!Number(@) + 1))]
  BY <1>10, <1>11
<1> QED
  BY <1>4, <1>6, <1>7, <1>8, <1>9, <1>12 DEF Store!Log

\* Everything the refinement rests on holds always.
THEOREM StoreInvariant == Spec => []StoreInv
<1>1. Init => StoreInv
  <2>1. Init => Blank /\ Filled
    BY DEF Init, IdleWorkers, Blank, Filled
  <2> QED
    BY <2>1, InitInv DEF StoreInv
<1>2. StoreInv /\ [Next]_feedVars => StoreInv'
  BY NextInv, BlankStep, FilledStep DEF StoreInv
<1> QED
  BY <1>1, <1>2, PTL DEF Spec

\* Any files may be there at first.
LEMMA InitRefines ==
    ASSUME Init
    PROVE  Store!Init
<1>1. FeedTypeOK
  BY InitInv DEF FeedInv
<1>2. shownBar \in [Names -> Store!Found]
  <2>1. \A n \in Names : File(n) \in Store!Found
    BY <1>1, ShownTyped DEF Found, Store!Found
  <2> QED
    BY <2>1 DEF shownBar
<1>3. importBar = "due"
  BY DEF Init, importBar
<1>4. \A w \in Workers : Stage(w) = "away"
  BY DEF Init, IdleWorkers, Stage, TookEffect
<1>5. stageBar = [w \in Workers |-> "away"] /\ onBar = [w \in Workers |-> None]
  BY <1>4 DEF stageBar, onBar
<1> QED
  BY <1>2, <1>3, <1>5, StoreTerms DEF Init, IdleWorkers, Store!Init

\* Every step of the directory is a step of the store or is not seen.
LEMMA StepRefines ==
    ASSUME StoreInv, [Next]_feedVars
    PROVE  [Store!Next]_(Store!storeVars)
<1>1. CASE Start \/ ImportDone
  BY <1>1, StartRefines, ImportDoneRefines DEF Store!Next
<1>2. CASE ImportFile
  BY <1>2, ImportFileRefines DEF Store!Next
<1>3. CASE Crash
  BY <1>3, CrashRefines DEF Store!Next
<1>4. ASSUME NEW n \in Names, ImportSidecar(n)
      PROVE  [Store!Next]_(Store!storeVars)
  BY <1>4, ImportSidecarRefines DEF Store!Next
<1>5. ASSUME NEW n \in Names, Unpublish(n) \/ \E c \in Contents : Publish(n, c)
      PROVE  [Store!Next]_(Store!storeVars)
  BY <1>5, ByHandRefines DEF Store!Next
<1>6. ASSUME NEW w \in Workers, \E n \in Names : Load(w, n)
      PROVE  [Store!Next]_(Store!storeVars)
  BY <1>6, ReadingRefines
<1>7. ASSUME NEW w \in Workers, NEW m \in Manifests, NEW b \in BOOLEAN, Submit(w, m, b)
      PROVE  [Store!Next]_(Store!storeVars)
  BY <1>7, SubmitRefines DEF Store!Next
<1>8. ASSUME NEW w \in Workers, Lock(w) \/ Advance(w) \/ Fail(w)
      PROVE  [Store!Next]_(Store!storeVars)
  <2>1. CASE ReadPub(w) \/ ReadOff(w) \/ Lock(w) \/ ReadSideCheck(w) \/ Accept(w)
    BY <2>1, ReadingRefines
  <2>2. CASE ReadSideLoad(w)
    BY <2>2, OpenRefines DEF Store!Next
  <2>3. CASE Conflict(w) \/ Fail(w)
    <3>1. Store!Leave({w}) /\ {w} \in SUBSET Workers
      BY <2>3, LeaveRefines
    <3> QED
      BY <3>1 DEF Store!Next
  <2>4. CASE Write(w) \/ Remove(w)
    BY <2>4, WriteRefines, RemoveRefines DEF Store!Next
  <2>5. CASE Record(w)
    BY <2>5, RecordRefines DEF Store!Next
  <2>6. CASE ReadSideConfirm(w)
    BY <2>6, AnswerRefines DEF Store!Next
  <2> QED
    BY <1>8, <2>1, <2>2, <2>3, <2>4, <2>5, <2>6 DEF Advance
<1>9. CASE UNCHANGED feedVars
  BY <1>9 DEF feedVars, disk, import, worker, Store!storeVars, Store!store, Store!editor,
              shownBar, File, importBar, stageBar, onBar, Stage, TookEffect
<1> QED
  BY <1>1, <1>2, <1>3, <1>4, <1>5, <1>6, <1>7, <1>8, <1>9 DEF Next

\* For any feeds, editors and legacy data, the files, sidecars and mutex of the
\* directory behave as the register with a log that FeedStore describes.
THEOREM DirectoryImplementsStore == Spec => ImplementsStore
<1>1. Init => Store!Init
  BY InitRefines
<1>2. StoreInv /\ [Next]_feedVars => [Store!Next]_(Store!storeVars)
  BY StepRefines
<1> QED
  BY <1>1, <1>2, StoreInvariant, PTL DEF Spec, ImplementsStore, Store!Spec
==============================================================================
