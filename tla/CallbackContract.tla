--------------------------- MODULE CallbackContract ---------------------------
(***************************************************************************)
(* What wnp.h:163-176 promises an application that follows the callbacks: *)
(* a player is announced before anything else is said of it and is not    *)
(* mentioned after its removal, and the active player is nobody or one of *)
(* the players announced.                                                  *)
(***************************************************************************)
EXTENDS Integers

CONSTANT Ids

VARIABLES
  known,      \* the players announced and not yet removed
  active      \* what on_active_player_changed reported last, -1 for NULL

Init == known = {} /\ active = -1

PlayerAdded(id) ==
  /\ id \notin known
  /\ known' = known \cup {id}
  /\ UNCHANGED active

PlayerUpdated(id) == id \in known /\ UNCHANGED <<known, active>>

(* The active player may be removed; on_active_player_changed follows.     *)
PlayerRemoved(id) ==
  /\ id \in known
  /\ known' = known \ {id}
  /\ UNCHANGED active

ActivePlayerChanged(id) ==
  /\ id \in known \cup {-1}
  /\ active' = id
  /\ UNCHANGED known

Next == \E id \in Ids \cup {-1} :
          \/ id # -1 /\ (PlayerAdded(id) \/ PlayerUpdated(id) \/ PlayerRemoved(id))
          \/ ActivePlayerChanged(id)

Spec == Init /\ [][Next]_<<known, active>>
=============================================================================
