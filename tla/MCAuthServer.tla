---------------------------- MODULE MCAuthServer ----------------------------
(* AuthServer for TLC.  Each .cfg picks the endpoints of one flow; workers  *)
(* and random tokens are interchangeable.                                   *)
EXTENDS AuthServer, TLC

Symmetry ==
    Permutations(Workers) \cup Permutations(SessionIds) \cup Permutations(TicketIds)
        \cup Permutations(StateIds) \cup Permutations(CodeIds)
=============================================================================
