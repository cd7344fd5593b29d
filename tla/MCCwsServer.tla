----------------------------- MODULE MCCwsServer -----------------------------
(* Small instances of the WebSocket server.                                *)
EXTENDS CwsServer, TLC

CONSTANTS k1, k2, s1

Symmetry == Permutations(Conns)
=============================================================================
