--------------------------- MODULE MCEventResults ---------------------------
(* Small instances of the event results.                                   *)
EXTENDS EventResults

CONSTANTS t1, t2, e1, e2

(* The applications for which the ring is large enough: when an event is   *)
(* started, nobody is concerned any more with the one its cell was last    *)
(* given to.                                                               *)
OrderlyNext ==
  /\ Next
  /\ (\E t \in Callers : pc[t] = "idle" /\ pc'[t] # "idle") => NextId \notin LiveIds

OrderlySpec == Init /\ [][OrderlyNext]_vars /\ Fairness
=============================================================================
