---------------------------- MODULE FeedRefinement ---------------------------
(***************************************************************************)
(* The directory of feeds implements FeedStore: two files, a sidecar and a *)
(* mutex behave as a compare-and-set register with a log.                  *)
(***************************************************************************)
EXTENDS FeedDirectory

\* The save of w has taken effect: with the Write when it enables the feed or
\* no public file hides the disabled one, else with the Remove of that file.
TookEffect(w) ==
    \/ pc[w] = "record"
    \/ pc[w] = "remove" /\ (want[w].enabled \/ pub[name[w]] = Absent)

Stage(w) ==
    IF phase[w] = "confirm" THEN "logged"
    ELSE IF TookEffect(w) THEN "switched"
    ELSE IF phase[w] = "check" \/ pc[w] = "lock" THEN "submitted"
    ELSE IF pc[w] = "edit" THEN "open"
    ELSE "away"

\* The variables of FeedStore, in terms of the files and requests.
shownBar == [n \in Names |-> File(n)]
importBar == IF marker THEN "done" ELSE IF server = "importing" THEN "running" ELSE "due"
stageBar == [w \in Workers |-> Stage(w)]
onBar == [w \in Workers |-> IF Stage(w) = "away" THEN None ELSE name[w]]

Store == INSTANCE FeedStore WITH
    shown <- shownBar,
    log <- side,
    import <- importBar,
    stage <- stageBar,
    on <- onBar,
    view <- seen,
    want <- want

\* Every step of the directory is a step of the store or changes nothing that
\* an editor or a client can see: saves are atomic and happen on the value
\* their editor has seen, answers show what was recorded, the import never
\* replaces a feed, and failures and crashes at any point leave a value that
\* some save, import or hand has put there.
ImplementsStore == Store!Spec
=============================================================================
