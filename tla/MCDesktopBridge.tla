--------------------------- MODULE MCDesktopBridge ---------------------------
(* DesktopBridge for TLC: two tabs of one browser.                          *)
EXTENDS DesktopBridge, TLC

Symmetry == Permutations(Tabs) \cup Permutations(Sessions)
=============================================================================
