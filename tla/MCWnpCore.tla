------------------------------ MODULE MCWnpCore ------------------------------
(* Small instances of the library core.                                     *)
EXTENDS WnpCore

CONSTANTS w1, w2, n1, a1

MCContent(state, at_) == [state |-> state, volume |-> 100, active_at |-> at_]

MCOne == {MCContent("PLAYING", 1)}
=============================================================================
