--------------------------- MODULE MCSiteDatabase ----------------------------
(* SiteDatabase for TLC: the server, a run of releasectl, and a singleton   *)
(* feed of two releases that was set back to the first one or has no       *)
(* current row.                                                            *)
EXTENDS SiteDatabase, TLC

Symmetry == Permutations(Workers)
=============================================================================
