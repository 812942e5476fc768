----------------------------- MODULE MCInstallers ----------------------------
(* Installers for TLC: two builds, two overlapping runs.                    *)
EXTENDS Installers, TLC

Symmetry ==
    Permutations(Publishers) \cup Permutations(Contents) \cup Permutations(Paths)
=============================================================================
