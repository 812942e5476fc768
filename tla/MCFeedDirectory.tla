--------------------------- MODULE MCFeedDirectory ---------------------------
(* FeedDirectory for TLC.                                                   *)
EXTENDS FeedDirectory, TLC

CONSTANTS n1, n2, m1, m2

\* In SQLite: a feed disabled in its second revision, and a feed migrated from
\* the singleton tables, numbered by release and set back to its first one.
Disabled ==
    << [content |-> m1, enabled |-> TRUE, revision |-> 1],
       [content |-> m2, enabled |-> FALSE, revision |-> 2] >>
Migrated ==
    << [content |-> m1, enabled |-> TRUE, revision |-> 2],
       [content |-> m2, enabled |-> TRUE, revision |-> 5] >>

NoLegacy == [n \in Names |-> << >>]
BothLegacy == [n \in Names |-> IF n = n1 THEN Disabled ELSE Migrated]
Pointers == [n \in Names |-> IF n = n1 THEN 2 ELSE 1]

Symmetry == Permutations(Workers)
=============================================================================
