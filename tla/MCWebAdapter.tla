---------------------------- MODULE MCWebAdapter ----------------------------
(* Small instances of the web adapter.                                     *)
EXTENDS WebAdapter, TLC

CONSTANTS k1, k2, s1, p1, p2, x, y

Symmetry == Permutations(Conns) \cup Permutations(Ports) \cup Permutations(Texts)
=============================================================================
