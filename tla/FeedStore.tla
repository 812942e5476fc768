------------------------------ MODULE FeedStore ------------------------------
(***************************************************************************)
(* What the update feeds promise to editors and clients, whatever files    *)
(* they are kept in: a compare-and-set register and an append-only log per *)
(* feed.  README: saves carry the ETag and revision the editor has loaded, *)
(* "Stale editors receive 409"; every save adds a revision; the feeds of   *)
(* SQLite are imported once and never overwrite a file.                    *)
(*                                                                         *)
(* The register changes in one step and the log in another, after it: a    *)
(* save that is interrupted in between has changed the feed and recorded   *)
(* nothing, which is why a snapshot is compared as a whole.                *)
(***************************************************************************)
EXTENDS Naturals, Sequences

CONSTANTS Names, Contents, Manifests, Absent, Legacy, LegacyCurrent, Workers, None

VARIABLES
    shown,     \* name: what clients and editors see
    log,       \* name: its revisions
    import,    \* of the feeds in SQLite: "due", "running", "done"
    stage,     \* editor: how far its save is
    on,        \* editor: the feed
    view,      \* editor: the snapshot it has
    want       \* editor: what it submitted

store == <<shown, log, import>>
editor == <<stage, on, view, want>>
storeVars == <<store, editor>>

NoFile == [content |-> Absent, enabled |-> FALSE]
Found == [content: Contents \cup {Absent}, enabled: BOOLEAN]
With(found, revision) ==
    [content |-> found.content, enabled |-> found.enabled, revision |-> revision]

Number(h) == IF h = << >> THEN 0 ELSE h[Len(h)].revision

\* The register and the number of its last revision, as one value.
Value(n) == IF shown[n] = NoFile THEN With(NoFile, 0) ELSE With(shown[n], Number(log[n]))

\* No save is between its effect and its answer.
Settled == \A w \in Workers : stage[w] \notin {"switched", "logged"}

Init ==
    /\ shown \in [Names -> Found]
    /\ log = [n \in Names |-> << >>]
    /\ import = "due"
    /\ stage = [w \in Workers |-> "away"]
    /\ on = [w \in Workers |-> None]
    /\ view = [w \in Workers |-> With(NoFile, 0)]
    /\ want = [w \in Workers |-> NoFile]

\* The import starts, and starts again after a crash, until it is done.
BeginImport ==
    /\ import = "due"
    /\ import' = "running"
    /\ UNCHANGED <<shown, log, editor>>

Interrupt ==
    /\ import = "running"
    /\ import' = "due"
    /\ UNCHANGED <<shown, log, editor>>

\* The log of a feed, then the feed where there is none; nobody edits yet.
ImportLog(n) ==
    /\ import = "running"
    /\ log[n] = << >>
    /\ log' = [log EXCEPT ![n] = Legacy[n]]
    /\ UNCHANGED <<shown, import, editor>>

ImportValue(n) ==
    /\ import = "running"
    /\ Legacy[n] # << >>
    /\ shown[n] = NoFile
    /\ LET current == Legacy[n][LegacyCurrent[n]]
       IN  shown' = [shown EXCEPT ![n] = [content |-> current.content,
                                          enabled |-> current.enabled]]
    /\ UNCHANGED <<log, import, editor>>

Imported ==
    /\ import = "running"
    /\ \A n \in Names : /\ log[n] = Legacy[n]
                        /\ Legacy[n] # << >> => shown[n] # NoFile
    /\ import' = "done"
    /\ UNCHANGED <<shown, log, editor>>

\* What an editor loads may be outdated, or even a mixture of two values.
Open(w, n, s) ==
    /\ import = "done"
    /\ stage[w] = "away"
    /\ stage' = [stage EXCEPT ![w] = "open"]
    /\ on' = [on EXCEPT ![w] = n]
    /\ view' = [view EXCEPT ![w] = s]
    /\ UNCHANGED <<store, want>>

Submit(w, m, b) ==
    /\ stage[w] = "open"
    /\ stage' = [stage EXCEPT ![w] = "submitted"]
    /\ want' = [want EXCEPT ![w] = [content |-> m, enabled |-> b]]
    /\ UNCHANGED <<store, on, view>>

\* The save takes effect: only on the very value its editor has seen.
Switch(w) ==
    /\ stage[w] = "submitted"
    /\ Settled
    /\ Value(on[w]) = view[w]
    /\ shown' = [shown EXCEPT ![on[w]] = want[w]]
    /\ stage' = [stage EXCEPT ![w] = "switched"]
    /\ UNCHANGED <<log, import, on, view, want>>

Log(w) ==
    /\ stage[w] = "switched"
    /\ log' = [log EXCEPT ![on[w]] = Append(@, With(want[w], Number(@) + 1))]
    /\ stage' = [stage EXCEPT ![w] = "logged"]
    /\ UNCHANGED <<shown, import, on, view, want>>

\* The answer is the revision just logged; the editor may go on from it.
Answer(w) ==
    /\ stage[w] = "logged"
    /\ Value(on[w]) = log[on[w]][Len(log[on[w]])]
    /\ view' = [view EXCEPT ![w] = Value(on[w])]
    /\ want' = [want EXCEPT ![w] = NoFile]
    /\ stage' = [stage EXCEPT ![w] = "open"]
    /\ UNCHANGED <<store, on>>

\* Conflicts, errors, editors who give up, and crashes, which end all requests.
Leave(S) ==
    /\ stage' = [w \in Workers |-> IF w \in S THEN "away" ELSE stage[w]]
    /\ on' = [w \in Workers |-> IF w \in S THEN None ELSE on[w]]
    /\ view' = [w \in Workers |-> IF w \in S THEN With(NoFile, 0) ELSE view[w]]
    /\ want' = [w \in Workers |-> IF w \in S THEN NoFile ELSE want[w]]
    /\ UNCHANGED store

\* Somebody replaces or removes the file by hand.
ByHand(n, f) ==
    /\ Settled /\ import # "running"
    /\ shown' = [shown EXCEPT ![n] = f]
    /\ UNCHANGED <<log, import, editor>>

Next ==
    \/ BeginImport \/ Interrupt \/ Imported
    \/ \E n \in Names :
          \/ ImportLog(n) \/ ImportValue(n)
          \/ \E f \in Found : ByHand(n, f)
          \/ \E w \in Workers, s \in [content: Contents \cup {Absent}, enabled: BOOLEAN,
                                      revision: {Number(log[n]), 0}] : Open(w, n, s)
    \/ \E w \in Workers :
          \/ \E m \in Manifests, b \in BOOLEAN : Submit(w, m, b)
          \/ Switch(w) \/ Log(w) \/ Answer(w)
    \/ \E S \in SUBSET Workers : Leave(S)

Spec == Init /\ [][Next]_storeVars
=============================================================================
