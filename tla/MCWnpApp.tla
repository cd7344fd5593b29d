------------------------------- MODULE MCWnpApp -------------------------------
(* Small instances of the library core with an application that mirrors it. *)
EXTENDS WnpApp

CONSTANTS w1, w2, n1, a1

MCContent(state, at_) == [state |-> state, volume |-> 100, active_at |-> at_]

MCOne == {MCContent("PLAYING", 1)}
MCThree == {MCContent("PLAYING", 1), MCContent("PLAYING", 2), MCContent("PAUSED", 1)}
=============================================================================
