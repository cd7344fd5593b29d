-------------------------------- MODULE WnpApp --------------------------------
(***************************************************************************)
(* The library core with an application on top of it that does what        *)
(* examples/debug.c does: it keeps a copy of every player, written by the  *)
(* callbacks, and remembers which player it was told is active.            *)
(***************************************************************************)
EXTENDS WnpCore

VARIABLES
  app_players,     \* `players` of examples/debug.c
  announced,       \* the slots on_player_added was called for since the last removal
  app_active       \* the id on_active_player_changed was given last, -1 for NULL

appVars == <<app_players, announced, app_active>>

AppInit ==
  /\ Init
  /\ app_players = [s \in Slots |-> WNP_DEFAULT_PLAYER]
  /\ announced = {}
  /\ app_active = -1

(* A copy torn by a removal can carry the id -1: the example then writes   *)
(* outside its array, which changes none of its players.                   *)
on_player_added ==
  /\ out'.what = "added"
  /\ app_players' = [s \in Slots |-> IF s = out'.player.id THEN out'.player ELSE app_players[s]]
  /\ announced' = announced \cup ({out'.player.id} \ {-1})
  /\ UNCHANGED app_active

on_player_updated ==
  /\ out'.what = "updated"
  /\ app_players' = [s \in Slots |-> IF s = out'.player.id THEN out'.player ELSE app_players[s]]
  /\ UNCHANGED <<announced, app_active>>

on_player_removed ==
  /\ out'.what = "removed"
  /\ app_players' = [s \in Slots |-> IF s = out'.player.id THEN WNP_DEFAULT_PLAYER
                                                          ELSE app_players[s]]
  /\ announced' = announced \ {out'.player.id}
  /\ UNCHANGED app_active

on_active_player_changed ==
  /\ out'.what = "active"
  /\ app_active' = out'.player.id
  /\ UNCHANGED <<app_players, announced>>

NoCallback ==
  /\ out'.what \in {"none", "get_player", "get_active"}
  /\ UNCHANGED appVars

AppNext ==
  /\ Next
  /\ \/ on_player_added
     \/ on_player_updated
     \/ on_player_removed
     \/ on_active_player_changed
     \/ NoCallback

AppSpec == AppInit /\ [][AppNext]_<<vars, appVars>>

-----------------------------------------------------------------------------
(* wnp.h:163-176, wnp.c:308-342: with one adapter thread the callbacks keep *)
(* the contract: no callback about a player outside its ADDED ... REMOVED.  *)
Contract == INSTANCE CallbackContract
            WITH Ids <- Slots, known <- announced, active <- app_active

KeepsContract == Contract!Spec

(* wnp.c:308-342: with one adapter thread, once the thread is back to its   *)
(* own work, an application that only listened to the callbacks has exactly *)
(* the table, every field of every player included, and knows the active    *)
(* player.                                                                  *)
MirrorAgrees == Quiet => app_players = players /\ app_active = active_player_id

(* wnp.h:167 "Callback invoked after a player is added": when nothing is    *)
(* going on, every player that wnp_get_all_players returns was announced.   *)
AddedIsAnnounced ==
  Quiet => Visible(players, total_web_players) \cap {s \in Slots : Used(s)} \subseteq announced
=============================================================================
